---------------------------- MODULE Spec2Model ----------------------------
(***************************************************************************)
(* A model of the application-control transport of the feature server.     *)
(*                                                                         *)
(* WsRequestor (src/lib/utils/ws-requestor.js) is modelled as a state      *)
(* machine whose steps are the tasks of the JavaScript event loop: a call  *)
(* of request() or close() by the owner, a socket event (open, error,      *)
(* unexpected-response, close, message), a timer (ack timeout, connect     *)
(* retry delay, scheduled reconnect), a ws.send completion callback and a  *)
(* setImmediate callback.  Every step runs the handler to completion,      *)
(* followed by the promise continuations (microtasks) it makes runnable.   *)
(*                                                                         *)
(* Handlers are written as functions from a state record to a state        *)
(* record (the record S gathers the variables), so that the composition    *)
(* of calls inside one handler reads like the source.                      *)
(***************************************************************************)
EXTENDS Integers, Sequences, FiniteSets, TLC

(***************************************************************************)
(* Bounds of the model.                                                    *)
(***************************************************************************)
MaxReq == 3          \* request() invocations (owner's and internal ones)
MaxOwnerReq == 3     \* request() invocations by the owner
MaxSockets == 3      \* Websocket objects created by _connect
MaxBackoffSockets == 6   \* the same, in the behaviours of BackoffSpec

Mids == 1..MaxReq
Socks == 1..(IF MaxBackoffSockets > MaxSockets THEN MaxBackoffSockets ELSE MaxSockets)

(***************************************************************************)
(* Program constants.                                                      *)
(***************************************************************************)
INITIAL_BACKOFF_MS == 500
BACKOFF_DOUBLE_LIMIT == 2000
BACKOFF_STEP_MS == 2000
NormalClosure == 1000
PeerCloseCodes == {1000, 1011}   \* close codes the peer uses: graceful, or not

\* the types the owner submits; session:reconnect and jambonz:error are
\* submitted by the requestor itself
MTYPE_WANTS_ACK == {"call:status", "verb:status", "jambonz:error", "llm:event",
                    "llm:tool-call", "tts:streaming-event", "tts:tokens-result"}
MTYPE_NO_DATA == {"llm:tool-output", "tts:flush", "tts:clear"}
HookInFrameTypes == {"verb:hook", "dial:confirm", "session:redirect",
                     "llm:event", "llm:tool-call"}
OwnerTypes == {"session:new", "session:adulting", "verb:hook", "call:status"}
\* the params object the owner passes with each type (callSid = the value)
ParamsOf(type) == IF type = "session:adulting" THEN 2 ELSE 1
\* the data the peer puts in its ack of a message
AckDataOf(msgid) == 20 + msgid
RetryPolicies == {{"ct"}, {"ct", "5xx"}}   \* rp of the hook url; the default is ct
MaxReconnectsValues == {2}       \* rc of the hook url
MAX_RECONNECTS == 5              \* the maxReconnects of a url without rc

VARIABLES
  ws,                 \* this.ws: 0 (null) or the socket installed
  connections,        \* this.connections
  messagesInFlight,   \* this.messagesInFlight: sequence of [id, rec] in insertion order
  maliciousClient,    \* this.maliciousClient
  closedGracefully,   \* this.closedGracefully
  backoffMs,          \* this.backoffMs
  connectInProgress,  \* this.connectInProgress
  queuedMsg,          \* this.queuedMsg: sequence of request ids
  maxReconnects,      \* this.maxReconnects
  call_sid,           \* this.call_sid
  _initMsgId,         \* this._initMsgId (0 = null)
  _sessionData,       \* this._sessionData (0 = undefined)
  _reconnectPromise,  \* this._reconnectPromise with its resolve/reject (0 = null)
  listener,           \* who awaits the once('ready')/once('not-ready') pair: 0 none, -1 reconnect timer, else request id
  sock,               \* state of every Websocket object created
  frames,             \* the frames written, in order
  req,                \* the request() invocations: type, params, hook, owner's or internal
  promise,            \* state of the promise returned to the caller of each request
  value,              \* the value a promise resolved with
  timers,             \* ack timers that are pending (by the msgid they were created for)
  rtimers,            \* number of pending _scheduleReconnect timers
  sendCbs,            \* ws.send completion callbacks not yet called, in order
  immediates,         \* setImmediate(request) callbacks not yet run, in order
  co,                 \* position of each request() inside the connect loop
  rpStatus,           \* state of every reconnect promise created
  rpWaiters,          \* send callbacks suspended on 'await this._reconnectPromise'
  alerts,             \* INVALID_APP_PAYLOAD alerts written
  hung,               \* the event loop is stuck in a loop that never ends
  crashed,            \* an exception left an event handler
  retryPolicyValues,  \* this.retryPolicyValues
  closeCalled,        \* close() has been called
  delays,             \* the delays passed to setTimeout for a connect retry or a reconnect, in order
  http,               \* an OptimizedHttpRequestor and the request() it is running
  pm,                 \* the connection pool registry: the module's instance and its ConnectionPoolManager
  lex,                \* a Lex task, its endpoint and the session's application
  em,                 \* an EventManager, its emitter and the timers it has set
  tl                  \* a TaskLoader and the loadTask calls in progress

wsVars == <<ws, connections, messagesInFlight, maliciousClient, closedGracefully,
          backoffMs, connectInProgress, queuedMsg, maxReconnects, call_sid,
          _initMsgId, _sessionData, _reconnectPromise, listener, sock, frames,
          req, promise, value, timers, rtimers, sendCbs, immediates, co,
          rpStatus, rpWaiters, alerts, hung, crashed, retryPolicyValues,
          closeCalled, delays>>

vars == <<wsVars, http, pm, lex, em, tl>>

\* the current state as one record
S == [ws |-> ws, connections |-> connections, messagesInFlight |-> messagesInFlight,
      maliciousClient |-> maliciousClient, closedGracefully |-> closedGracefully,
      backoffMs |-> backoffMs, connectInProgress |-> connectInProgress,
      queuedMsg |-> queuedMsg, maxReconnects |-> maxReconnects, call_sid |-> call_sid,
      initMsgId |-> _initMsgId, sessionData |-> _sessionData,
      reconnectPromise |-> _reconnectPromise, listener |-> listener, sock |-> sock,
      frames |-> frames, req |-> req, promise |-> promise, value |-> value,
      timers |-> timers, rtimers |-> rtimers, sendCbs |-> sendCbs,
      immediates |-> immediates, co |-> co, rpStatus |-> rpStatus,
      rpWaiters |-> rpWaiters, alerts |-> alerts,
      hung |-> hung, crashed |-> crashed, retryPolicyValues |-> retryPolicyValues,
      closeCalled |-> closeCalled, delays |-> delays,
      ovf |-> FALSE]

\* the next state is the record t
Commit(t) ==
  /\ ~t.ovf
  /\ ws' = t.ws /\ connections' = t.connections
  /\ messagesInFlight' = t.messagesInFlight
  /\ maliciousClient' = t.maliciousClient /\ closedGracefully' = t.closedGracefully
  /\ backoffMs' = t.backoffMs /\ connectInProgress' = t.connectInProgress
  /\ queuedMsg' = t.queuedMsg /\ maxReconnects' = t.maxReconnects
  /\ call_sid' = t.call_sid /\ _initMsgId' = t.initMsgId
  /\ _sessionData' = t.sessionData /\ _reconnectPromise' = t.reconnectPromise
  /\ listener' = t.listener /\ sock' = t.sock /\ frames' = t.frames
  /\ req' = t.req /\ promise' = t.promise /\ value' = t.value
  /\ timers' = t.timers /\ rtimers' = t.rtimers /\ sendCbs' = t.sendCbs
  /\ immediates' = t.immediates /\ co' = t.co /\ rpStatus' = t.rpStatus
  /\ rpWaiters' = t.rpWaiters /\ alerts' = t.alerts
  /\ hung' = t.hung /\ crashed' = t.crashed
  /\ retryPolicyValues' = t.retryPolicyValues /\ closeCalled' = t.closeCalled
  /\ delays' = t.delays
  /\ http' = http /\ pm' = pm /\ lex' = lex /\ em' = em /\ tl' = tl

(***************************************************************************)
(* Helpers on the state record.                                            *)
(***************************************************************************)
\* wantsAck for which every type expects an ack
wantsAck_EveryType(type) == TRUE

wantsAck(type) == type \notin MTYPE_WANTS_ACK

\* snakeCaseKeys(params, [...]): the payload is the snake-cased copy of params
snakeCaseKeys(p) == 10 + p

\* Map operations on messagesInFlight (a Map keeps insertion order)
MapHas(m, k) == \E i \in 1..Len(m) : m[i].id = k
MapGet(m, k) == IF MapHas(m, k) THEN (CHOOSE e \in {m[i] : i \in 1..Len(m)} : e.id = k).rec ELSE 0
MapDelete(m, k) == SelectSeq(m, LAMBDA e : e.id # k)
MapSet(m, k, r) ==
  IF MapHas(m, k) THEN [i \in 1..Len(m) |-> IF m[i].id = k THEN [id |-> k, rec |-> r] ELSE m[i]]
  ELSE Append(m, [id |-> k, rec |-> r])
MapKeys(m) == {m[i].id : i \in 1..Len(m)}

\* resolve / reject of the promise that request() returned for request m;
\* settling a settled promise does nothing
SettlePromise(s, m, how, v) ==
  IF s.promise[m] = "pending"
  THEN [s EXCEPT !.promise[m] = how, !.value[m] = v]
  ELSE s

\* this._reconnectResolve() / this._reconnectReject(err), when set
SettleReconnect(s, how) ==
  IF s.reconnectPromise # 0 /\ s.rpStatus[s.reconnectPromise] = "pending"
  THEN [s EXCEPT !.rpStatus[s.reconnectPromise] = how]
  ELSE s

\* the success closure stored in messagesInFlight by request r
success(s, r, data) ==
  LET s1 == [s EXCEPT !.timers = @ \ {r}]
      s2 == SettlePromise(s1, r, "resolved", data)
  IN SettleReconnect(s2, "resolved")

\* the failure closure stored in messagesInFlight by request r
failure(s, r) ==
  LET s1 == SettleReconnect(s, "rejected")
      s2 == [s1 EXCEPT !.timers = @ \ {r}]
  IN SettlePromise(s2, r, "rejected", 0)

\* _shouldRetry(err, retryPolicyValues): some token matches the class of the error
_shouldRetry(err, tokens) ==
  \/ "all" \in tokens
  \/ err = "ct" /\ "ct" \in tokens
  \/ err = "4xx" /\ "4xx" \in tokens
  \/ err = "5xx" /\ "5xx" \in tokens

\* a backoff that keeps doubling
NextBackoff_AlwaysDoubles(b) == b * 2

NextBackoff(b) == IF b < BACKOFF_DOUBLE_LIMIT THEN b * 2 ELSE b + BACKOFF_STEP_MS

(***************************************************************************)
(* _connect: installs the ready/not-ready listeners for the caller and     *)
(* creates a new Websocket.                                                *)
(***************************************************************************)
NumSocks(s) == Cardinality({k \in Socks : s.sock[k] # "none"})

\* the Websocket objects a behaviour may create
SocketBound(s) == IF s.maxReconnects = MAX_RECONNECTS THEN MaxBackoffSockets ELSE MaxSockets

_connect(s, owner) ==
  IF s.ws # 0 THEN [s EXCEPT !.crashed = TRUE]                 \* assert(!this.ws)
  ELSE IF NumSocks(s) >= SocketBound(s) THEN [s EXCEPT !.ovf = TRUE]
  ELSE [s EXCEPT !.listener = owner, !.sock[NumSocks(s) + 1] = "connecting"]

(***************************************************************************)
(* request(type, hook, params): the part that runs up to the first await   *)
(* or to the return.  m is the invocation, s.req[m] its arguments.         *)
(***************************************************************************)
queueMsg(s, m) ==
  LET s1 == [s EXCEPT !.queuedMsg = Append(@, m)]
  IN IF wantsAck(s.req[m].type) THEN s1
     ELSE SettlePromise(s1, m, "resolved", 0)

\* lines 188-314: prepare and send the message
SendMessage(s, m) ==
  LET type == s.req[m].type
      payload0 == IF s.req[m].params # 0 THEN snakeCaseKeys(s.req[m].params) ELSE 0
      s1 == IF type \in {"session:new", "session:adulting"}
            THEN [s EXCEPT !.sessionData = payload0] ELSE s
      payload == IF type = "session:reconnect" THEN s1.sessionData ELSE payload0
      msgid == m
      s2 == IF type = "session:new" THEN [s1 EXCEPT !.initMsgId = msgid] ELSE s1
      obj == [sock |-> s.ws, type |-> type, msgid |-> msgid, call_sid |-> s.call_sid,
              hook |-> IF type \in HookInFrameTypes THEN s.req[m].hook ELSE "undefined",
              data |-> payload, conn |-> s.connections]
      reconnectingWithoutAck == type = "session:reconnect" /\ s2.initMsgId # 0
      s3 == IF reconnectingWithoutAck
            THEN [s2 EXCEPT !.messagesInFlight =
                               MapSet(MapDelete(@, s2.initMsgId), msgid, MapGet(@, s2.initMsgId)),
                            !.initMsgId = msgid]
            ELSE s2
  IN IF ~wantsAck(type) \/ reconnectingWithoutAck
     THEN SettlePromise([s3 EXCEPT !.frames = Append(@, obj),
                                   !.sendCbs = Append(@, [kind |-> "simple", m |-> m])],
                        m, "resolved", 0)
     ELSE [s3 EXCEPT !.timers = @ \cup {msgid},
                     !.messagesInFlight = MapSet(@, msgid, m),
                     !.frames = Append(@, obj),
                     !.sendCbs = Append(@, [kind |-> "ack", m |-> m])]

\* lines 182-186: after the connect, or when a socket is installed
AfterConnect(s, m) ==
  IF s.req[m].type # "session:reconnect" /\ s.reconnectPromise # 0
  THEN queueMsg(s, m)
  ELSE IF s.ws = 0 THEN SettlePromise(s, m, "rejected", 0)     \* assert(this.ws)
  ELSE SendMessage(s, m)

\* lines 86-186: request() past the two discarding checks
requestBody(s, m) ==
    LET type == s.req[m].type
        s1 == IF type = "session:new" THEN [s EXCEPT !.call_sid = s.req[m].params] ELSE s
        s2 == IF type = "session:reconnect"
              THEN [s1 EXCEPT !.reconnectPromise = m, !.rpStatus[m] = "pending"]
              ELSE s1
    IN IF s2.ws = 0
       THEN IF s2.connectInProgress THEN queueMsg(s2, m)
            ELSE _connect([s2 EXCEPT !.connectInProgress = TRUE,
                                     !.co[m] = [st |-> "connecting", retry |-> 0]], m)
       ELSE AfterConnect(s2, m)

\* request() without the closedGracefully check of line 81
request_NoClosedCheck(s, m) ==
  IF s.maliciousClient THEN SettlePromise(s, m, "resolved", 0)
  ELSE requestBody(s, m)

request(s, m) ==
  IF s.maliciousClient THEN SettlePromise(s, m, "resolved", 0)
  ELSE IF s.closedGracefully THEN SettlePromise(s, m, "resolved", 0)
  ELSE requestBody(s, m)

\* a new invocation of request: returns the state with the invocation registered
NewRequest(s, type, params, hook, ext) ==
  LET n == Cardinality({k \in Mids : s.req[k].type # "none"}) IN
  IF n >= MaxReq THEN [s EXCEPT !.ovf = TRUE]
  ELSE request([s EXCEPT !.req[n + 1] = [type |-> type, params |-> params, hook |-> hook, ext |-> ext],
                         !.promise[n + 1] = "pending"], n + 1)

(***************************************************************************)
(* sendQueuedMsgs / rejectQueuedMsgs (closures of request).                *)
(* sendQueuedMsgs calls request() at once for an entry with a promise and  *)
(* defers an entry without one to setImmediate.  The for-of loop follows   *)
(* the array while it grows: a request() that queues its message again     *)
(* appends to the array being iterated, and the loop never ends.           *)
(***************************************************************************)
RECURSIVE SendFrom(_, _)
SendFrom(s, i) ==
  IF i > Len(s.queuedMsg) THEN s
  ELSE LET m == s.queuedMsg[i] IN
       IF wantsAck(s.req[m].type)
       THEN LET t == request(s, m) IN
            IF Len(t.queuedMsg) > Len(s.queuedMsg) THEN [t EXCEPT !.hung = TRUE]
            ELSE IF t.ovf \/ t.crashed THEN t
            ELSE SendFrom(t, i + 1)
       ELSE SendFrom([s EXCEPT !.immediates = Append(@, m)], i + 1)

sendQueuedMsgs(s) ==
  IF Len(s.queuedMsg) > 0
  THEN LET t == SendFrom(s, 1) IN
       IF t.hung THEN t ELSE [t EXCEPT !.queuedMsg = << >>]
  ELSE s

RECURSIVE RejectFrom(_, _)
RejectFrom(s, i) ==
  IF i > Len(s.queuedMsg) THEN s
  ELSE LET m == s.queuedMsg[i] IN
       RejectFrom(IF wantsAck(s.req[m].type) THEN SettlePromise(s, m, "rejected", 0) ELSE s,
                  i + 1)

rejectQueuedMsgs(s) ==
  IF Len(s.queuedMsg) > 0
  THEN [RejectFrom(s, 1) EXCEPT !.queuedMsg = << >>]
  ELSE s

(***************************************************************************)
(* The completion callback of ws.send.                                     *)
(***************************************************************************)
\* lines 298-312 after 'await this._reconnectPromise' has returned or thrown
AfterReconnectAwait(s, how) ==
  LET cleared == [s EXCEPT !.reconnectPromise = 0]               \* finally
  IN IF how = "rejected"
     THEN [rejectQueuedMsgs(s) EXCEPT !.reconnectPromise = 0]    \* catch, then finally
     ELSE sendQueuedMsgs(cleared)

\* run the callbacks suspended on a reconnect promise that has settled
RECURSIVE RunWaiters(_)
RunWaiters(s) ==
  IF s.hung \/ s.crashed \/ s.ovf THEN s
  ELSE IF \E i \in 1..Len(s.rpWaiters) : s.rpStatus[s.rpWaiters[i]] # "pending"
  THEN LET i == CHOOSE j \in 1..Len(s.rpWaiters) :
                  /\ s.rpStatus[s.rpWaiters[j]] # "pending"
                  /\ \A k \in 1..(j - 1) : s.rpStatus[s.rpWaiters[k]] = "pending"
           k == s.rpWaiters[i]
           s1 == [s EXCEPT !.rpWaiters = SubSeq(@, 1, i - 1) \o SubSeq(@, i + 1, Len(@))]
       IN RunWaiters(AfterReconnectAwait(s1, s.rpStatus[k]))
  ELSE s

SendCallback(s, cb) ==
  IF cb.kind = "simple" THEN sendQueuedMsgs(s)
  ELSE IF s.reconnectPromise # 0
       THEN RunWaiters([s EXCEPT !.rpWaiters = Append(@, s.reconnectPromise)])
       ELSE sendQueuedMsgs(s)

(***************************************************************************)
(* _clearPendingMessages.  An entry whose value is undefined makes the     *)
(* destructuring throw: the result carries threw = TRUE and the map is     *)
(* left as it was.                                                         *)
(***************************************************************************)
RECURSIVE ClearFrom(_, _)
ClearFrom(s, i) ==
  IF i > Len(s.messagesInFlight) THEN [st |-> [s EXCEPT !.messagesInFlight = << >>], threw |-> FALSE]
  ELSE LET e == s.messagesInFlight[i] IN
       IF e.rec = 0 THEN [st |-> s, threw |-> TRUE]
       ELSE LET s1 == [s EXCEPT !.timers = @ \ {e.rec}]
                s2 == IF s.initMsgId = 0 THEN failure(s1, e.rec) ELSE s1
            IN ClearFrom(s2, i + 1)

_clearPendingMessages(s) == ClearFrom(s, 1)

(***************************************************************************)
(* close()                                                                 *)
(***************************************************************************)
close(s) ==
  LET s1 == [s EXCEPT !.closedGracefully = TRUE, !.closeCalled = TRUE]
      s2 == IF s1.ws # 0 THEN [s1 EXCEPT !.sock[s1.ws] = "closed", !.ws = 0] ELSE s1
  IN _clearPendingMessages(s2).st           \* an exception is caught and logged

(***************************************************************************)
(* Socket event handlers.                                                  *)
(***************************************************************************)
_scheduleReconnect(s) ==
  [s EXCEPT !.rtimers = @ + 1, !.delays = Append(@, s.backoffMs),
            !.backoffMs = NextBackoff(@)]

\* _onSocketClosed that does not look at closedGracefully
_onSocketClosed_IgnoresGraceful(s) ==
  LET s1 == [s EXCEPT !.ws = 0] IN
  IF s1.connections > 0 /\ s1.connections < s1.maxReconnects
  THEN LET c == IF s1.initMsgId = 0 THEN _clearPendingMessages(s1)
                ELSE [st |-> s1, threw |-> FALSE]
       IN IF c.threw THEN [c.st EXCEPT !.crashed = TRUE]
          ELSE _scheduleReconnect(c.st)
  ELSE s1

_onSocketClosed(s) ==
  LET s1 == [s EXCEPT !.ws = 0] IN
  IF s1.connections > 0 /\ s1.connections < s1.maxReconnects /\ ~s1.closedGracefully
  THEN LET c == IF s1.initMsgId = 0 THEN _clearPendingMessages(s1)
                ELSE [st |-> s1, threw |-> FALSE]
       IN IF c.threw THEN [c.st EXCEPT !.crashed = TRUE]
          ELSE _scheduleReconnect(c.st)
  ELSE s1

\* 'close' of socket k; this.ws need not be k
_onClose(s, k, code) ==
  LET s0 == [s EXCEPT !.sock[k] = "closed"]
      s1 == IF s0.connections > 0 /\ code # NormalClosure THEN _onSocketClosed(s0)
            ELSE IF code = NormalClosure THEN [s0 EXCEPT !.closedGracefully = TRUE]
            ELSE s0
  IN IF s1.crashed THEN s1
     ELSE IF s1.ws # 0
          THEN [s1 EXCEPT !.sock[s1.ws] = IF s1.ws = k THEN "closed" ELSE "detached", !.ws = 0]
     ELSE s1

\* the continuation of whoever awaited the connect promise, once it is resolved
ConnectResolved(s, owner) ==
  IF owner = -1 THEN [s EXCEPT !.connectInProgress = FALSE]        \* .finally of _scheduleReconnect
  ELSE IF owner = 0 THEN s
  ELSE AfterConnect([s EXCEPT !.co[owner] = [st |-> "none", retry |-> 0]], owner)

\* the continuation of whoever awaited the connect promise, once it is rejected
ConnectRejected(s, owner, err) ==
  IF owner = -1 THEN [s EXCEPT !.connectInProgress = FALSE]
  ELSE IF owner = 0 THEN s
  ELSE LET retryCount == s.co[owner].retry + 1 IN
       IF retryCount <= s.maxReconnects /\ s.retryPolicyValues # {}
          /\ _shouldRetry(err, s.retryPolicyValues)
       THEN [s EXCEPT !.co[owner] = [st |-> "delay", retry |-> retryCount],
                      !.delays = Append(@, s.backoffMs),
                      !.backoffMs = NextBackoff(@)]
       ELSE SettlePromise([s EXCEPT !.co[owner] = [st |-> "none", retry |-> 0],
                                    !.connectInProgress = FALSE],
                          owner, "rejected", 0)

\* emit('ready'): the once('ready') listener of _connect
EmitReady(s) ==
  IF s.listener = 0 THEN s
  ELSE LET s1 == [s EXCEPT !.listener = 0] IN
       IF s1.connections > 1
       THEN NewRequest(s1, "session:reconnect", 0, "url", FALSE)
       ELSE s1

_onOpen(s, k) ==
  IF s.ws # 0 THEN [s EXCEPT !.crashed = TRUE]                     \* assert(!this.ws)
  ELSE LET owner == s.listener
           s1 == EmitReady([s EXCEPT !.ws = k, !.sock[k] = "open",
                                     !.connectInProgress = FALSE,
                                     !.connections = @ + 1])
       IN IF s1.ovf \/ s1.crashed THEN s1 ELSE ConnectResolved(s1, owner)

\* 'error' on a socket that is connecting; the library emits 'close' (1006)
\* right after 'error', in the same tick
_onError(s, k) ==
  LET notReady == s.connectInProgress \/ s.connections = 0
      owner == IF notReady THEN s.listener ELSE 0
      s1 == IF notReady THEN [s EXCEPT !.listener = 0] ELSE s
      s2 == _onClose(s1, k, 1006)
  IN IF s2.crashed THEN s2 ELSE ConnectRejected(s2, owner, "ct")

_onUnexpectedResponse(s, k, err) ==
  IF s.ws # 0 THEN [s EXCEPT !.crashed = TRUE]                     \* assert(!this.ws)
  ELSE LET owner == s.listener
           s1 == [s EXCEPT !.connectInProgress = FALSE, !.listener = 0, !.sock[k] = "closed"]
       IN ConnectRejected(s1, owner, err)

\* the timer of _scheduleReconnect
ReconnectTimeout(s) ==
  LET s1 == [s EXCEPT !.rtimers = @ - 1] IN
  IF s1.ws = 0 /\ ~s1.connectInProgress
  THEN _connect([s1 EXCEPT !.connectInProgress = TRUE], -1)
  ELSE s1

\* the retry delay of the connect loop has elapsed: next turn of the loop
RetryConnect(s, m) ==
  LET s1 == IF s.ws # 0 THEN [s EXCEPT !.sock[s.ws] = "detached", !.ws = 0] ELSE s
  IN _connect([s1 EXCEPT !.co[m].st = "connecting"], m)

\* the ack timer of msgid
AckTimeout(s, msgid) ==
  LET r == MapGet(s.messagesInFlight, msgid)
      s1 == [s EXCEPT !.timers = @ \ {msgid}]
      s2 == IF r # 0 THEN failure(s1, r) ELSE s1
  IN [s2 EXCEPT !.messagesInFlight = MapDelete(@, msgid)]

(***************************************************************************)
(* Inbound frames.                                                         *)
(***************************************************************************)
\* _recvAck that removes the entry but does not call its success closure
_recvAck_NoSuccess(s, msgid, data) ==
  [s EXCEPT !.initMsgId = 0, !.messagesInFlight = MapDelete(@, msgid)]

_recvAck(s, msgid, data) ==
  LET s1 == [s EXCEPT !.initMsgId = 0]
      obj == MapGet(s1.messagesInFlight, msgid)
  IN IF obj = 0 THEN s1
     ELSE success([s1 EXCEPT !.messagesInFlight = MapDelete(@, msgid)], obj, data)

\* what JSON.parse and the assertions of _onMessage make of a frame:
\* "ack", "command", or "invalid" when something throws
Validate(f) ==
  IF ~f.json THEN "invalid"
  ELSE IF f.type = "none" THEN "invalid"
  ELSE IF f.type = "ack" THEN (IF f.msgid = 0 THEN "invalid" ELSE "ack")
  ELSE IF f.type = "command"
       THEN (IF f.command = "none" THEN "invalid"
             ELSE IF ~f.data /\ f.command \notin MTYPE_NO_DATA THEN "invalid"
             ELSE "command")
  ELSE "invalid"

\* this.isBinary, the property that _onMessage tests: never assigned
thisIsBinary == FALSE

\* _onMessage that treats a frame that fails validation like a binary one
_onMessage_InvalidIsMalicious(s, f) ==
  IF thisIsBinary
  THEN [s EXCEPT !.maliciousClient = TRUE, !.sock[s.ws] = "closed"]
  ELSE LET v == Validate(f) IN
       IF v = "ack" THEN _recvAck(s, f.msgid, f.ackdata)
       ELSE IF v = "command" THEN s
       ELSE [s EXCEPT !.alerts = @ + 1, !.maliciousClient = TRUE, !.sock[s.ws] = "closed"]

\* lines 522-528: writeAlerts is called once; when its promise rejects, the
\* handler given to .catch logs the error and nothing else happens
writeAlerts(s, rejects) ==
  LET s1 == [s EXCEPT !.alerts = @ + 1]
  IN IF rejects THEN s1 ELSE s1

\* _onMessage in which a rejected alert write is not caught
_onMessage_AlertFailureThrows(s, f) ==
  IF thisIsBinary
  THEN [s EXCEPT !.maliciousClient = TRUE, !.sock[s.ws] = "closed"]
  ELSE LET v == Validate(f) IN
       IF v = "ack" THEN _recvAck(s, f.msgid, f.ackdata)
       ELSE IF v = "command" THEN s
       ELSE IF f.alertFails THEN [s EXCEPT !.alerts = @ + 1, !.crashed = TRUE]
       ELSE NewRequest(writeAlerts(s, f.alertFails), "jambonz:error", 3, "/error", FALSE)

_onMessage(s, f) ==
  IF thisIsBinary
  THEN [s EXCEPT !.maliciousClient = TRUE, !.sock[s.ws] = "closed"]
  ELSE LET v == Validate(f) IN
       IF v = "ack" THEN _recvAck(s, f.msgid, f.ackdata)
       ELSE IF v = "command" THEN s          \* _recvCommand: emit('command', ...)
       ELSE NewRequest(writeAlerts(s, f.alertFails), "jambonz:error", 3, "/error", FALSE)

(***************************************************************************)
(* OptimizedHttpRequestor (src/lib/utils/http-requestor-optimized.js).     *)
(* The variable http holds the requestor and the locals of the request()   *)
(* it is running; request() is suspended at 'await makeRequest', at        *)
(* 'await sleep' or at 'await handleError'.                                *)
(***************************************************************************)
HTTP_BACKOFF_MS == 500

HttpTypes == {"session:new", "session:redirect", "verb:hook", "call:status", "jambonz:error"}
HttpSchemes == {"http", "ws"}        \* scheme of the absolute url of the hook
\* rc of the url fragment: << >> when absent, <<N>> for rc=N
RcValues == {-2, 0, 1, 3, 5, 7}
RcOptions == {<< >>} \cup {<<n>> : n \in RcValues}
\* rp of the url fragment, split at the commas; the default is ct
HttpRetryPolicies == {{"ct"}, {"5xx", "ct"}, {"4xx"}, {"all"}}
\* what one attempt meets: a transport error, or a response
HttpOutcomes ==
  {[kind |-> "error", status |-> 0, json |-> FALSE]}
  \cup {[kind |-> "response", status |-> st, json |-> j] :
          st \in {200, 201, 202, 204, 301, 404, 503}, j \in BOOLEAN}

Abs(n) == IF n < 0 THEN 0 - n ELSE n
Min(a, b) == IF a < b THEN a ELSE b
Max(a, b) == IF a > b THEN a ELSE b
RECURSIVE Pow2(_)
Pow2(n) == IF n <= 0 THEN 1 ELSE 2 * Pow2(n - 1)

HttpInit ==
  [pc |-> "idle", n |-> 0, type |-> "none", rc |-> << >>, params |-> 0,
   maxRetries |-> 0, retryPolicyValues |-> {}, retryCount |-> 0,
   lastError |-> "none", response |-> "null", attempts |-> 0, delays |-> << >>,
   result |-> "none", value |-> "undefined",
   created |-> << >>, handovers |-> << >>, closeCalls |-> 0, alerts |-> 0,
   backoffMs |-> HTTP_BACKOFF_MS, account_sid |-> "account", secret |-> "secret",
   _usePools |-> TRUE]

\* Math.min(Math.abs(parseInt(hashObj.rc || '0')), 5)
HttpMaxRetries(rc) == Min(Abs(IF rc = << >> THEN 0 ELSE rc[1]), 5)

\* the class of the error an attempt throws, as _shouldRetry sees it
StatusClass(status) ==
  IF status >= 400 /\ status <= 499 THEN "4xx"
  ELSE IF status >= 500 /\ status <= 599 THEN "5xx"
  ELSE "other"

\* getClientConfig(url): the client of the attempt.  The constructor sets
\* this.poolManager only when _usePools holds, so that without pools
\* this.poolManager.getClient(absUrl) throws a TypeError.
getClientConfig(h) == IF h._usePools THEN "pool" ELSE "TypeError"

\* makeRequest after getClientConfig: the outcome of one attempt
makeRequest(o) ==
  IF o.kind = "error" THEN [ok |-> FALSE, value |-> "null", err |-> "ct"]
  ELSE IF o.status \notin {200, 202, 204}
       THEN [ok |-> FALSE, value |-> "null", err |-> StatusClass(o.status)]
  ELSE IF o.json THEN [ok |-> TRUE, value |-> "json", err |-> "none"]
  ELSE [ok |-> TRUE, value |-> "empty", err |-> "none"]

\* lines 186-200: after the retry loop.  The empty string is falsy.
HttpAfterLoop(h) ==
  IF h.lastError # "none" /\ h.response \in {"null", "empty"}
  THEN [h EXCEPT !.pc = "alert"]                       \* await this.handleError(...)
  ELSE [h EXCEPT !.pc = "idle", !.result = "resolved", !.value = h.response]

\* lines 161-183 with retry and sleep unconditional on the retry policy
HttpAfterAttempt_RetryAnyError(h, o) ==
  LET r == IF getClientConfig(h) = "TypeError"
             THEN [ok |-> FALSE, value |-> "null", err |-> "TypeError"]
             ELSE makeRequest(o) IN
  IF r.ok THEN HttpAfterLoop([h EXCEPT !.response = r.value])
  ELSE LET retryCount == h.retryCount + 1
           h1 == [h EXCEPT !.lastError = r.err, !.retryCount = retryCount]
       IN IF retryCount <= h.maxRetries
          THEN [h1 EXCEPT !.pc = "sleep",
                          !.delays = Append(@, h.backoffMs * Pow2(retryCount - 1))]
          ELSE HttpAfterLoop(h1)

\* lines 161-183: 'await this.makeRequest' has returned or thrown
HttpAfterAttempt(h, o) ==
  LET r == IF getClientConfig(h) = "TypeError"
             THEN [ok |-> FALSE, value |-> "null", err |-> "TypeError"]
             ELSE makeRequest(o) IN
  IF r.ok THEN HttpAfterLoop([h EXCEPT !.response = r.value])
  ELSE LET retryCount == h.retryCount + 1
           h1 == [h EXCEPT !.lastError = r.err, !.retryCount = retryCount]
       IN IF retryCount <= h.maxRetries /\ _shouldRetry(r.err, h.retryPolicyValues)
          THEN [h1 EXCEPT !.pc = "sleep",
                          !.delays = Append(@, h.backoffMs * Pow2(retryCount - 1))]
          ELSE HttpAfterLoop(h1)

\* 'await this.sleep(delay)' has returned: the next turn of the loop
HttpAfterSleep(h) == [h EXCEPT !.pc = "attempt", !.attempts = @ + 1]

\* handleError has returned (a failure of writeAlerts is caught): throw lastError
handleError(h) ==
  [h EXCEPT !.pc = "idle", !.alerts = @ + 1, !.result = "rejected", !.value = h.lastError]

\* lines 110-159: request() up to the first await or to the return
OptimizedHttpRequestor_request(h, type, scheme, rc, rp, params) ==
  LET h0 == [h EXCEPT !.n = @ + 1, !.type = type, !.rc = rc, !.params = params,
                      !.maxRetries = 0, !.retryPolicyValues = {}, !.retryCount = 0,
                      !.lastError = "none", !.response = "null", !.attempts = 0,
                      !.delays = << >>, !.result = "pending", !.value = "undefined"]
  IN IF type = "jambonz:error" THEN [h0 EXCEPT !.result = "resolved"]
     ELSE IF scheme = "ws"
     THEN LET requestor == [account_sid |-> h.account_sid, secret |-> h.secret,
                            type |-> "session:new", params |-> params, trigger |-> type]
              h1 == [h0 EXCEPT !.created = Append(@, requestor), !.result = "delegated"]
          IN IF type = "session:redirect"
             THEN [h1 EXCEPT !.closeCalls = @ + 1, !.handovers = Append(@, requestor)]
             ELSE h1
     ELSE [h0 EXCEPT !.maxRetries = HttpMaxRetries(rc), !.retryPolicyValues = rp,
                     !.pc = "attempt", !.attempts = 1]

(***************************************************************************)
(* The state machine.                                                      *)
(***************************************************************************)
NoReq == [type |-> "none", params |-> 0, hook |-> "none", ext |-> FALSE]
NoCo == [st |-> "none", retry |-> 0]

(***************************************************************************)
(* ConnectionPoolManager (connection-pool-manager.js) and the module's     *)
(* singleton.  Time is Date.now() in milliseconds; it advances by whole    *)
(* cleanup intervals.                                                      *)
(***************************************************************************)
IDLE_TIMEOUT == 300000       \* options.idleTimeout || 300000
CLEANUP_INTERVAL == 60000    \* options.cleanupInterval || 60000

MaxTicks == 8          \* cleanup intervals that pass
MaxPools == 3          \* Pool objects created
MaxRequestCount == 2   \* getPool calls counted in one statistics entry

BaseUrls == {"http://a", "http://b"}

NoStats == [present |-> FALSE, created |-> 0, lastUsed |-> 0, requestCount |-> 0]

\* the module before getConnectionPoolManager() is first called: instance = null
PoolInit ==
  [instance |-> FALSE, pools |-> [b \in BaseUrls |-> 0],
   poolStats |-> [b \in BaseUrls |-> NoStats],
   cleanupTimer |-> FALSE, timerDue |-> FALSE, now |-> 0,
   nPools |-> 0, closed |-> {}, ret |-> 0]

\* new ConnectionPoolManager(options): empty maps and an armed cleanup interval
ConnectionPoolManager_constructor(p) ==
  [p EXCEPT !.instance = TRUE, !.pools = [b \in BaseUrls |-> 0],
            !.poolStats = [b \in BaseUrls |-> NoStats],
            !.cleanupTimer = TRUE, !.timerDue = FALSE]

getConnectionPoolManager(p) ==
  IF ~p.instance THEN ConnectionPoolManager_constructor(p) ELSE p

\* createPool(baseUrl): a new Pool and a fresh statistics entry
createPool(p, b) ==
  [p EXCEPT !.nPools = @ + 1,
            !.pools[b] = p.nPools + 1,
            !.poolStats[b] = [present |-> TRUE, created |-> p.now,
                              lastUsed |-> p.now, requestCount |-> 0]]

\* a getPool that makes a new pool on every call
getPool_AlwaysCreates(p, b) ==
  LET q == createPool(p, b)
      stats == q.poolStats[b]
  IN [q EXCEPT !.poolStats[b] = [stats EXCEPT !.lastUsed = q.now,
                                              !.requestCount = @ + 1],
               !.ret = q.pools[b]]

\* getPool(baseUrl); ret is the pool returned
getPool(p, b) ==
  LET q == IF p.pools[b] = 0 THEN createPool(p, b) ELSE p
      stats == IF q.poolStats[b].present THEN q.poolStats[b]
               ELSE [present |-> TRUE, created |-> q.now,
                     lastUsed |-> q.now, requestCount |-> 0]
  IN [q EXCEPT !.poolStats[b] = [stats EXCEPT !.lastUsed = q.now,
                                              !.requestCount = @ + 1],
               !.ret = q.pools[b]]

\* destroyPool(baseUrl)
destroyPool(p, b) ==
  IF p.pools[b] # 0
    THEN [p EXCEPT !.closed = @ \cup {p.pools[b]}, !.pools[b] = 0,
                   !.poolStats[b] = NoStats]
    ELSE p

\* the entries cleanup() finds idle
IdleUrls(p) ==
  {b \in BaseUrls : p.poolStats[b].present /\ p.poolStats[b].lastUsed < p.now - IDLE_TIMEOUT}

RECURSIVE DestroyAll(_, _)
DestroyAll(p, bs) ==
  IF bs = {} THEN p
  ELSE LET b == CHOOSE x \in bs : TRUE IN DestroyAll(destroyPool(p, b), bs \ {b})

\* cleanup(): the callback of the cleanup interval
cleanup(p) == [DestroyAll(p, IdleUrls(p)) EXCEPT !.timerDue = FALSE]

\* destroy(): clears the interval, closes every pool, clears both maps
destroy(p) ==
  [p EXCEPT !.cleanupTimer = FALSE, !.timerDue = FALSE,
            !.closed = @ \cup {p.pools[b] : b \in {x \in BaseUrls : p.pools[x] # 0}},
            !.pools = [b \in BaseUrls |-> 0],
            !.poolStats = [b \in BaseUrls |-> NoStats]]


(***************************************************************************)
(* The Lex task (lib/tasks/lex.js).  The Task base class and the session   *)
(* are not part of the sources at hand: notifyTaskDone, awaitTaskDone,     *)
(* performAction and replaceApplication follow the contract of Task and    *)
(* CallSession.                                                            *)
(***************************************************************************)
MaxKills == 2    \* kill(cs) calls made by the session
MaxHooks == 2    \* event-hook requests sent

\* what an event-hook request can come back with
HookResponses == {"tasks", "emptyArray", "object", "rejected"}

\* a Lex task that has been constructed, before exec
LexInit ==
  [pc |-> "new", bargein |-> FALSE, actionHook |-> FALSE, events |-> {},
   connected |-> TRUE, listening |-> FALSE, done |-> FALSE,
   start |-> "none", breaks |-> 0, breaksPending |-> 0, kills |-> 0,
   reported |-> << >>, hooks |-> 0, hooksSent |-> 0,
   replaced |-> 0, app |-> "initial"]

\* Task.notifyTaskDone: resolves the completion promise exec may be awaiting
notifyTaskDone(l) ==
  [l EXCEPT !.done = TRUE, !.pc = IF @ = "await" THEN "resolved" ELSE @]

\* Task.performAction(results, advance): posts the action hook when there is one
performAction(l, lexResult, advance) ==
  IF l.actionHook
    THEN [l EXCEPT !.reported = Append(@, [lexResult |-> lexResult, advance |-> advance])]
    ELSE l

\* exec after init: aws_lex_start is sent, then await this.awaitTaskDone()
Lex_exec_start(l) ==
  [l EXCEPT !.start = "pending", !.pc = IF l.done THEN "resolved" ELSE "await"]

\* exec(cs, ep) up to the first await that leaves the task waiting; throws
\* says that init throws while it adds the listeners
Lex_exec(l, bargein, actionHook, events, throws) ==
  LET c == [l EXCEPT !.bargein = bargein, !.actionHook = actionHook, !.events = events]
  IN IF throws THEN [c EXCEPT !.pc = "resolved"]
     ELSE IF bargein THEN [c EXCEPT !.listening = TRUE, !.pc = "init"]
     ELSE Lex_exec_start([c EXCEPT !.listening = TRUE])

\* init resumes after await this.ep.set(...)
Lex_init_resume(l, ok) ==
  IF ok THEN Lex_exec_start(l) ELSE [l EXCEPT !.pc = "resolved"]

\* a kill that ends the task only while the endpoint is connected
Lex_kill_OnlyWhenConnected(l) ==
  LET k == [l EXCEPT !.kills = @ + 1]
  IN IF k.connected
       THEN [performAction([k EXCEPT !.listening = FALSE], "caller hungup", TRUE)
               EXCEPT !.breaks = @ + 1, !.breaksPending = @ + 1]
       ELSE k

\* kill(cs) up to await this.ep.api('uuid_break'), or to its end
Lex_kill(l) ==
  LET k == [l EXCEPT !.kills = @ + 1]
  IN IF k.connected
       THEN [performAction([k EXCEPT !.listening = FALSE], "caller hungup", TRUE)
               EXCEPT !.breaks = @ + 1, !.breaksPending = @ + 1]
       ELSE notifyTaskDone(k)

\* kill resumes after uuid_break has succeeded or failed
Lex_kill_resume(l) == notifyTaskDone([l EXCEPT !.breaksPending = @ - 1])

\* aws_lex_start has succeeded or failed
Lex_exec_started(l, ok) ==
  IF ok THEN [l EXCEPT !.start = "ok"]
  ELSE notifyTaskDone([l EXCEPT !.start = "failed"])

\* CallSession.replaceApplication(tasks): kills the current task and installs tasks
replaceApplication(l) ==
  LET r == [l EXCEPT !.replaced = @ + 1, !.app = "tasks"]
  IN IF r.pc \in {"init", "await"} THEN Lex_kill(r) ELSE r

\* _onIntent(ep, cs, evt)
_onIntent(l) ==
  IF "intent" \in l.events
    THEN [l EXCEPT !.hooks = @ + 1, !.hooksSent = @ + 1]
    ELSE l

\* a _performHook that replaces the application whatever the response is
_performHook_OnAnyResponse(l, r) ==
  replaceApplication(performAction([l EXCEPT !.hooks = @ - 1], "redirect", FALSE))

\* _performHook after await this.cs.requestor.request(hook, results)
_performHook(l, r) ==
  LET h == [l EXCEPT !.hooks = @ - 1]
  IN IF r = "tasks"
       THEN replaceApplication(performAction(h, "redirect", FALSE))
       ELSE h

(***************************************************************************)
(* EventManager (event-manager.js).  A listener is the function it was     *)
(* made from and, for a once listener, the number of its closure (k = 0 is *)
(* the function itself).  emitter is what the EventEmitter holds.          *)
(***************************************************************************)
MaxEmCalls == 4      \* calls made on the EventManager

Fns == {"f", "g"}
EmEvents == {"a", "b"}
\* how many times a once listener has run removeListener when the stack overflows
StackDepths == {2, 3}

\* new EventManager()
EmInit ==
  [emitter |-> [ev \in EmEvents |-> << >>], listeners |-> [ev \in EmEvents |-> {}],
   onceListeners |-> {}, timeoutListeners |-> {}, timers |-> {},
   listenerCount |-> 0, invoked |-> [fn \in Fns |-> 0], fns |-> {},
   nClosures |-> 0, nTimers |-> 0, calls |-> 0, threw |-> FALSE, cleaned |-> FALSE]

\* the timer handle timeoutListeners holds for listener l
HandleOf(e, l) == (CHOOSE x \in e.timeoutListeners : x.l = l).h

\* EventEmitter.removeListener: the most recently added instance goes
RECURSIVE RemoveLast(_, _)
RemoveLast(list, l) ==
  IF list = << >> THEN << >>
  ELSE IF list[Len(list)] = l THEN SubSeq(list, 1, Len(list) - 1)
  ELSE Append(RemoveLast(SubSeq(list, 1, Len(list) - 1), l), list[Len(list)])

\* removeListener(event, listener)
removeListener(e, ev, l) ==
  LET timed == \E x \in e.timeoutListeners : x.l = l
  IN [e EXCEPT !.listeners[ev] = @ \ {l},
               !.onceListeners = @ \ {l},
               !.timers = IF timed THEN {t \in @ : t.h # HandleOf(e, l)} ELSE @,
               !.timeoutListeners = {x \in @ : x.l # l},
               !.listenerCount = @ - 1,
               !.emitter[ev] = RemoveLast(@, l)]

\* addListener(event, listener, {once, timeout}); once(...) and
\* timedListener(...) are addListener with once: true and with a timeout
addListener(e, ev, fn, once, timeout) ==
  LET l == IF once THEN [fn |-> fn, k |-> e.nClosures + 1] ELSE [fn |-> fn, k |-> 0]
      h == e.nTimers + 1
  IN [e EXCEPT !.nClosures = IF once THEN @ + 1 ELSE @,
               !.onceListeners = IF once THEN @ \cup {l} ELSE @,
               !.nTimers = IF timeout THEN h ELSE @,
               !.timers = IF timeout THEN @ \cup {[h |-> h, ev |-> ev, l |-> l]} ELSE @,
               !.timeoutListeners =
                  IF timeout THEN {x \in @ : x.l # l} \cup {[l |-> l, h |-> h]} ELSE @,
               !.listeners[ev] = @ \cup {l},
               !.listenerCount = @ + 1,
               !.emitter[ev] = Append(@, l),
               !.fns = @ \cup {[ev |-> ev, l |-> l]}]

RECURSIVE RemoveEach(_, _, _)
RemoveEach(e, ev, ls) ==
  IF ls = {} THEN e
  ELSE LET l == CHOOSE x \in ls : TRUE IN RemoveEach(removeListener(e, ev, l), ev, ls \ {l})

RECURSIVE RemoveEvents(_, _)
RemoveEvents(e, evs) ==
  IF evs = {} THEN e
  ELSE LET ev == CHOOSE x \in evs : TRUE
       IN RemoveEvents(RemoveEach(e, ev, e.listeners[ev]), evs \ {ev})

\* removeAllListeners(event); event = "undefined" stands for no argument, in
\* which case super.removeAllListeners(undefined) removes nothing more
removeAllListeners(e, ev) ==
  IF ev # "undefined"
    THEN [RemoveEach(e, ev, e.listeners[ev]) EXCEPT !.emitter[ev] = << >>]
    ELSE RemoveEvents(e, EmEvents)

\* cleanup(): clears the timers timeoutListeners holds, all tracking and the emitter
EventManager_cleanup(e) ==
  [e EXCEPT !.timers = {t \in @ : \A x \in e.timeoutListeners : x.h # t.h},
            !.listeners = [ev \in EmEvents |-> {}],
            !.onceListeners = {}, !.timeoutListeners = {},
            !.listenerCount = 0,
            !.emitter = [ev \in EmEvents |-> << >>],
            !.cleaned = TRUE]

\* the callback of the timer set in addListener (lines 54-60)
TimeoutCallback(e, t) ==
  LET r == removeListener([e EXCEPT !.timers = @ \ {t}], t.ev, t.l)
  IN [r EXCEPT !.timeoutListeners = {x \in @ : x.l # t.l},
               !.onceListeners = @ \ {t.l}]

\* a once listener is called: onceListener removes itself and then calls
\* actualListener, which by then is onceListener itself; it recurses until
\* the stack overflows, after d runs of removeListener
RECURSIVE onceListener(_, _, _, _)
onceListener(e, ev, l, d) ==
  IF d = 0 THEN [e EXCEPT !.threw = TRUE]
  ELSE onceListener(removeListener(e, ev, l), ev, l, d - 1)

\* emit(event): the listeners registered at the call are called in order,
\* until one throws
RECURSIVE EmitFrom(_, _, _, _, _)
EmitFrom(e, ev, list, i, d) ==
  IF i > Len(list) THEN e
  ELSE IF list[i].k = 0
    THEN EmitFrom([e EXCEPT !.invoked[list[i].fn] = @ + 1], ev, list, i + 1, d)
    ELSE onceListener(e, ev, list[i], d)

emit(e, ev, d) == EmitFrom(e, ev, e.emitter[ev], 1, d)

(***************************************************************************)
(* TaskLoader (http-requestor-optimized.js, lines 359-651).  A module is   *)
(* the number of the load that made it: loadTaskModule deletes the entry   *)
(* of require.cache first, so that every load gives a new module object.   *)
(***************************************************************************)
MaxLoadCalls == 3    \* loadTask calls made

TaskNames == {"say", "dial", "nope"}
\* the task files scanTaskDirectory finds
TaskDirectory == {"say", "dial"}

NoCall == [pc |-> "none", name |-> "none", p |-> 0, module |-> 0]

\* new TaskLoader()
TlInit ==
  [initialized |-> FALSE, taskMap |-> {},
   taskCache |-> [n \in TaskNames |-> 0],
   loadingPromises |-> [n \in TaskNames |-> 0],
   promises |-> << >>, modules |-> 0,
   loaded |-> [n \in TaskNames |-> 0], removed |-> [n \in TaskNames |-> FALSE],
   call |-> [c \in 1..MaxLoadCalls |-> NoCall], ncalls |-> 0]

\* loadTaskModule(taskPath, taskName): runs to its end within the call; ok
\* says whether require gives a constructor.  The promise it returns is
\* appended to promises.
loadTaskModule(t, name, ok) ==
  [t EXCEPT !.modules = IF ok THEN @ + 1 ELSE @,
            !.loaded[name] = IF ok THEN @ + 1 ELSE @,
            !.promises = Append(@, [name |-> name, ok |-> ok,
                                    module |-> IF ok THEN t.modules + 1 ELSE 0])]

\* a loadTask that does not look into loadingPromises
loadTask_NoSharing(t, c, name, ok) ==
  IF t.taskCache[name] # 0
    THEN [t EXCEPT !.call[c] = [pc |-> "resolved", name |-> name, p |-> 0,
                                module |-> t.taskCache[name]]]
  ELSE IF name \notin t.taskMap
    THEN [t EXCEPT !.call[c] = [pc |-> "rejected", name |-> name, p |-> 0, module |-> 0]]
  ELSE LET l == loadTaskModule(t, name, ok)
           p == Len(l.promises)
       IN [l EXCEPT !.loadingPromises[name] = p,
                    !.call[c] = [pc |-> "await", name |-> name, p |-> p, module |-> 0]]

\* loadTask(taskName) from the cache check on (lines 459-477), for call c
loadTask(t, c, name, ok) ==
  IF t.taskCache[name] # 0
    THEN [t EXCEPT !.call[c] = [pc |-> "resolved", name |-> name, p |-> 0,
                                module |-> t.taskCache[name]]]
  ELSE IF t.loadingPromises[name] # 0
    THEN LET p == t.loadingPromises[name]
         IN [t EXCEPT !.call[c] = [pc |-> IF t.promises[p].ok THEN "resolved" ELSE "rejected",
                                   name |-> name, p |-> p,
                                   module |-> t.promises[p].module]]
  ELSE IF name \notin t.taskMap
    THEN [t EXCEPT !.call[c] = [pc |-> "rejected", name |-> name, p |-> 0, module |-> 0]]
  ELSE LET l == loadTaskModule(t, name, ok)
           p == Len(l.promises)
       IN [l EXCEPT !.loadingPromises[name] = p,
                    !.call[c] = [pc |-> "await", name |-> name, p |-> p, module |-> 0]]

\* a resume that leaves the entry of a failed load in loadingPromises
loadTask_resume_KeepsFailed(t, c) ==
  LET name == t.call[c].name
      p == t.promises[t.call[c].p]
  IN [t EXCEPT !.taskCache[name] = IF p.ok THEN p.module ELSE @,
               !.call[c].pc = IF p.ok THEN "resolved" ELSE "rejected",
               !.call[c].module = p.module,
               !.loadingPromises[name] = IF p.ok THEN 0 ELSE @]

\* loadTask after 'await loadingPromise' (lines 479-489), for call c
loadTask_resume(t, c) ==
  LET name == t.call[c].name
      p == t.promises[t.call[c].p]
  IN [t EXCEPT !.taskCache[name] = IF p.ok THEN p.module ELSE @,
               !.call[c].pc = IF p.ok THEN "resolved" ELSE "rejected",
               !.call[c].module = p.module,
               !.loadingPromises[name] = 0]

\* initialize() after 'await this.scanTaskDirectory()', then loadTask goes on
initialize(t, c, scanned, ok) ==
  IF scanned
    THEN loadTask([t EXCEPT !.taskMap = @ \cup TaskDirectory, !.initialized = TRUE],
                  c, t.call[c].name, ok)
    ELSE [t EXCEPT !.call[c].pc = "rejected"]

\* clearCache(taskName); "undefined" stands for no argument
clearCache(t, name) ==
  [t EXCEPT !.taskCache = [n \in TaskNames |->
                              IF name \in {n, "undefined"} THEN 0 ELSE @[n]],
            !.loaded = [n \in TaskNames |->
                           IF name \in {n, "undefined"} /\ t.taskCache[n] # 0 THEN 0 ELSE @[n]],
            !.removed = [n \in TaskNames |->
                           @[n] \/ (name \in {n, "undefined"} /\ t.taskCache[n] # 0)]]

\* the state after construction, but for maxReconnects
Constructed ==
  /\ ws = 0 /\ connections = 0 /\ messagesInFlight = << >>
  /\ maliciousClient = FALSE /\ closedGracefully = FALSE
  /\ backoffMs = INITIAL_BACKOFF_MS /\ connectInProgress = FALSE
  /\ queuedMsg = << >>
  /\ call_sid = 0 /\ _initMsgId = 0 /\ _sessionData = 0 /\ _reconnectPromise = 0
  /\ listener = 0
  /\ sock = [k \in Socks |-> "none"]
  /\ frames = << >>
  /\ req = [m \in Mids |-> NoReq]
  /\ promise = [m \in Mids |-> "none"]
  /\ value = [m \in Mids |-> 0]
  /\ timers = {} /\ rtimers = 0 /\ sendCbs = << >> /\ immediates = << >>
  /\ co = [m \in Mids |-> NoCo]
  /\ rpStatus = [m \in Mids |-> "none"]
  /\ rpWaiters = << >>
  /\ alerts = 0
  /\ hung = FALSE /\ crashed = FALSE
  /\ retryPolicyValues \in RetryPolicies
  /\ closeCalled = FALSE
  /\ delays = << >>
  /\ http = HttpInit
  /\ pm = PoolInit
  /\ lex = LexInit
  /\ em = EmInit
  /\ tl = TlInit

Init == maxReconnects \in MaxReconnectsValues /\ Constructed

Running == ~hung /\ ~crashed

\* The completion callback of a write runs before the next socket event or
\* timer; a setImmediate callback runs before the next timer.
SocketEventMayRun == Running /\ sendCbs = << >>
TimerMayRun == Running /\ sendCbs = << >> /\ immediates = << >>

\* a handler has run: its continuations run, then the state is committed
Step(t) == Commit(RunWaiters(t))

OwnerHasRequested == \E m \in Mids : req[m].ext

\* the owner calls request(type, hook, params); its first request is session:new
Request(type, p) ==
  /\ Running
  /\ (type = "session:new") <=> ~OwnerHasRequested
  /\ Cardinality({m \in Mids : req[m].ext}) < MaxOwnerReq
  /\ Step(NewRequest(S, type, p, "rel", TRUE))

\* the owner calls close()
Close ==
  /\ Running /\ ~closeCalled
  /\ Step(close(S))

SocketOpen(k) ==
  /\ SocketEventMayRun /\ sock[k] = "connecting"
  /\ Step(_onOpen(S, k))

SocketError(k) ==
  /\ SocketEventMayRun /\ sock[k] = "connecting"
  /\ Step(_onError(S, k))

UnexpectedResponse(k, err) ==
  /\ SocketEventMayRun /\ sock[k] = "connecting"
  /\ Step(_onUnexpectedResponse(S, k, err))

SocketClose(k, code) ==
  /\ SocketEventMayRun /\ sock[k] = "open"
  /\ Step(_onClose(S, k, code))

WrittenMsgIds == {frames[i].msgid : i \in 1..Len(frames)}

Frame(json, type, msgid, ackdata, command, data, binary) ==
  [json |-> json, type |-> type, msgid |-> msgid, ackdata |-> ackdata,
   command |-> command, data |-> data, binary |-> binary, alertFails |-> FALSE]

\* the frames a peer can send; an ack names the msgid of a frame it received
PeerFrames ==
  {Frame(TRUE, "ack", i, AckDataOf(i), "none", TRUE, b) : i \in Mids, b \in BOOLEAN}
  \cup {Frame(TRUE, "command", 0, 0, "redirect", TRUE, FALSE),
        Frame(TRUE, "command", 0, 0, "tts:flush", FALSE, FALSE),
        Frame(FALSE, "none", 0, 0, "none", FALSE, FALSE),
        Frame(FALSE, "none", 0, 0, "none", FALSE, TRUE),
        Frame(TRUE, "none", 0, 0, "none", TRUE, FALSE),
        Frame(TRUE, "ack", 0, 7, "none", TRUE, FALSE),
        Frame(TRUE, "command", 0, 0, "none", TRUE, FALSE),
        Frame(TRUE, "command", 0, 0, "redirect", FALSE, FALSE),
        Frame(TRUE, "bogus", 0, 0, "none", TRUE, FALSE)}

\* a frame together with what becomes of the alert write it may cause
InboundFrames ==
  PeerFrames \cup {[f EXCEPT !.alertFails = TRUE] : f \in {g \in PeerFrames : Validate(g) = "invalid"}}

Message(k, f) ==
  /\ SocketEventMayRun /\ sock[k] = "open"
  /\ f.msgid # 0 => f.msgid \in WrittenMsgIds
  /\ Step(_onMessage(S, f))

AckTimer(m) ==
  /\ TimerMayRun /\ m \in timers
  /\ Step(AckTimeout(S, m))

ReconnectTimer ==
  /\ TimerMayRun /\ rtimers > 0
  /\ Step(ReconnectTimeout(S))

RetryDelay(m) ==
  /\ TimerMayRun /\ co[m].st = "delay"
  /\ Step(RetryConnect(S, m))

SendCb ==
  /\ Running /\ sendCbs # << >>
  /\ Step(SendCallback([S EXCEPT !.sendCbs = Tail(@)], Head(sendCbs)))

Immediate ==
  /\ Running /\ immediates # << >>
  /\ Step(request([S EXCEPT !.immediates = Tail(@)], Head(immediates)))

Next ==
  \/ \E type \in OwnerTypes : Request(type, ParamsOf(type))
  \/ Close
  \/ \E k \in Socks : SocketOpen(k)
  \/ \E k \in Socks : SocketError(k)
  \/ \E k \in Socks, err \in {"4xx", "5xx"} : UnexpectedResponse(k, err)
  \/ \E k \in Socks, code \in PeerCloseCodes : SocketClose(k, code)
  \/ \E k \in Socks, f \in InboundFrames : Message(k, f)
  \/ \E m \in Mids : AckTimer(m)
  \/ ReconnectTimer
  \/ \E m \in Mids : RetryDelay(m)
  \/ SendCb
  \/ Immediate

Spec == Init /\ [][Next]_vars

(***************************************************************************)
(* A WsRequestor whose url has no rc (maxReconnects = MAX_RECONNECTS) and  *)
(* whose owner submits session:new only: connect retries, drops and        *)
(* scheduled reconnects alone.                                             *)
(***************************************************************************)
BackoffInit == maxReconnects = MAX_RECONNECTS /\ Constructed

BackoffNext ==
  \/ Request("session:new", ParamsOf("session:new"))
  \/ \E k \in Socks : SocketOpen(k)
  \/ \E k \in Socks : SocketError(k)
  \/ \E k \in Socks, err \in {"4xx", "5xx"} : UnexpectedResponse(k, err)
  \/ \E k \in Socks, code \in PeerCloseCodes : SocketClose(k, code)
  \/ ReconnectTimer
  \/ \E m \in Mids : RetryDelay(m)
  \/ SendCb

BackoffSpec == BackoffInit /\ [][BackoffNext]_vars

(***************************************************************************)
(* The OptimizedHttpRequestor alone: its owner calls request(), the server *)
(* answers each attempt, the timers of sleep() fire.                       *)
(***************************************************************************)
MaxHttpReq == 2      \* request() invocations on the OptimizedHttpRequestor

HttpRequest(type, scheme, rc, rp) ==
  /\ http.pc = "idle" /\ http.n < MaxHttpReq
  /\ http' = OptimizedHttpRequestor_request(http, type, scheme, rc, rp, ParamsOf(type))
  /\ UNCHANGED <<wsVars, pm, lex, em, tl>>

HttpResponse(o) ==
  /\ http.pc = "attempt"
  /\ http' = HttpAfterAttempt(http, o)
  /\ UNCHANGED <<wsVars, pm, lex, em, tl>>

HttpSleepDone ==
  /\ http.pc = "sleep"
  /\ http' = HttpAfterSleep(http)
  /\ UNCHANGED <<wsVars, pm, lex, em, tl>>

HttpAlertDone ==
  /\ http.pc = "alert"
  /\ http' = handleError(http)
  /\ UNCHANGED <<wsVars, pm, lex, em, tl>>

HttpNext ==
  \/ \E type \in HttpTypes, scheme \in HttpSchemes, rc \in RcOptions, rp \in HttpRetryPolicies :
       HttpRequest(type, scheme, rc, rp)
  \/ \E o \in HttpOutcomes : HttpResponse(o)
  \/ HttpSleepDone
  \/ HttpAlertDone

\* the WsRequestor is left as constructed, with the default retry policy
HttpSpecInit == Init /\ retryPolicyValues = {"ct"}

HttpSpec == HttpSpecInit /\ [][HttpNext]_vars

\* the constructor run with HTTP_POOL unset or 0: this.poolManager stays undefined
ConstructWithoutPools ==
  /\ http = HttpInit
  /\ http' = [http EXCEPT !._usePools = FALSE]
  /\ UNCHANGED <<wsVars, pm, lex, em, tl>>

HttpPoolEnvNext ==
  \/ ConstructWithoutPools
  \/ HttpNext

\* the requestor with and without connection pools
HttpPoolEnvSpec == HttpSpecInit /\ [][HttpPoolEnvNext]_vars

(***************************************************************************)
(* The connection pool registry on its own.                                *)
(***************************************************************************)
GetConnectionPoolManager ==
  /\ ~pm.instance
  /\ pm' = getConnectionPoolManager(pm)
  /\ UNCHANGED <<wsVars, http, lex, em, tl>>

GetPool(b) ==
  /\ pm.instance
  /\ IF pm.pools[b] = 0 THEN pm.nPools < MaxPools
     ELSE pm.poolStats[b].requestCount < MaxRequestCount
  /\ pm' = getPool(pm, b)
  /\ UNCHANGED <<wsVars, http, lex, em, tl>>

\* a cleanup interval passes; an armed interval timer becomes due
TimePasses ==
  /\ ~pm.timerDue /\ pm.now < MaxTicks * CLEANUP_INTERVAL
  /\ pm' = [pm EXCEPT !.now = @ + CLEANUP_INTERVAL, !.timerDue = pm.cleanupTimer]
  /\ UNCHANGED <<wsVars, http, lex, em, tl>>

CleanupTimerFires ==
  /\ pm.cleanupTimer /\ pm.timerDue
  /\ pm' = cleanup(pm)
  /\ UNCHANGED <<wsVars, http, lex, em, tl>>

Destroy ==
  /\ pm.instance
  /\ pm' = destroy(pm)
  /\ UNCHANGED <<wsVars, http, lex, em, tl>>

PoolNext ==
  \/ GetConnectionPoolManager
  \/ \E b \in BaseUrls : GetPool(b)
  \/ TimePasses
  \/ CleanupTimerFires
  \/ Destroy

PoolSpec == HttpSpecInit /\ [][PoolNext]_vars

(***************************************************************************)
(* The Lex task on its own.                                                *)
(***************************************************************************)
Exec(bargein, actionHook, events, throws) ==
  /\ lex.pc = "new"
  /\ lex' = Lex_exec(lex, bargein, actionHook, events, throws)
  /\ UNCHANGED <<wsVars, http, pm, em, tl>>

EpSetDone(ok) ==
  /\ lex.pc = "init"
  /\ lex' = Lex_init_resume(lex, ok)
  /\ UNCHANGED <<wsVars, http, pm, em, tl>>

LexStartDone(ok) ==
  /\ lex.start = "pending"
  /\ lex' = Lex_exec_started(lex, ok)
  /\ UNCHANGED <<wsVars, http, pm, em, tl>>

\* the session kills its current task
Kill ==
  /\ lex.pc \in {"init", "await"} /\ lex.kills < MaxKills
  /\ lex' = Lex_kill(lex)
  /\ UNCHANGED <<wsVars, http, pm, em, tl>>

UuidBreakDone ==
  /\ lex.breaksPending > 0
  /\ lex' = Lex_kill_resume(lex)
  /\ UNCHANGED <<wsVars, http, pm, em, tl>>

EndpointDisconnects ==
  /\ lex.pc # "new" /\ lex.connected
  /\ lex' = [lex EXCEPT !.connected = FALSE]
  /\ UNCHANGED <<wsVars, http, pm, em, tl>>

\* the endpoint emits lex::intent
Intent ==
  /\ lex.listening /\ lex.connected /\ "intent" \in lex.events
  /\ lex.hooksSent < MaxHooks
  /\ lex' = _onIntent(lex)
  /\ UNCHANGED <<wsVars, http, pm, em, tl>>

EventHookResponse(r) ==
  /\ lex.hooks > 0
  /\ lex' = _performHook(lex, r)
  /\ UNCHANGED <<wsVars, http, pm, em, tl>>

LexNext ==
  \/ \E bargein \in BOOLEAN, actionHook \in BOOLEAN, events \in {{}, {"intent"}},
        throws \in BOOLEAN : Exec(bargein, actionHook, events, throws)
  \/ \E ok \in BOOLEAN : EpSetDone(ok)
  \/ \E ok \in BOOLEAN : LexStartDone(ok)
  \/ Kill
  \/ UuidBreakDone
  \/ EndpointDisconnects
  \/ Intent
  \/ \E r \in HookResponses : EventHookResponse(r)

LexSpec == HttpSpecInit /\ [][LexNext]_vars

(***************************************************************************)
(* The EventManager on its own.                                            *)
(***************************************************************************)
AddListener(ev, fn, once, timeout) ==
  /\ em.calls < MaxEmCalls
  /\ em' = [addListener(em, ev, fn, once, timeout) EXCEPT !.calls = @ + 1, !.threw = FALSE]
  /\ UNCHANGED <<wsVars, http, pm, lex, tl>>

\* removeListener with a function of the caller, registered or not
RemoveListener(ev, fn) ==
  /\ em.calls < MaxEmCalls
  /\ em' = [removeListener(em, ev, [fn |-> fn, k |-> 0])
              EXCEPT !.calls = @ + 1, !.threw = FALSE]
  /\ UNCHANGED <<wsVars, http, pm, lex, tl>>

\* a cleanup function that addListener returned is called
CleanupFunction(ev, fn, k) ==
  /\ em.calls < MaxEmCalls
  /\ [ev |-> ev, l |-> [fn |-> fn, k |-> k]] \in em.fns
  /\ em' = [removeListener(em, ev, [fn |-> fn, k |-> k])
              EXCEPT !.calls = @ + 1, !.threw = FALSE]
  /\ UNCHANGED <<wsVars, http, pm, lex, tl>>

RemoveAllListeners(ev) ==
  /\ em.calls < MaxEmCalls
  /\ em' = [removeAllListeners(em, ev) EXCEPT !.calls = @ + 1, !.threw = FALSE]
  /\ UNCHANGED <<wsVars, http, pm, lex, tl>>

EmCleanup ==
  /\ em.calls < MaxEmCalls
  /\ em' = [EventManager_cleanup(em) EXCEPT !.calls = @ + 1, !.threw = FALSE]
  /\ UNCHANGED <<wsVars, http, pm, lex, tl>>

Emit(ev, d) ==
  /\ em.calls < MaxEmCalls
  /\ em' = [emit([em EXCEPT !.threw = FALSE], ev, d) EXCEPT !.calls = @ + 1]
  /\ UNCHANGED <<wsVars, http, pm, lex, tl>>

ListenerTimeout(h) ==
  /\ \E t \in em.timers : t.h = h
  /\ em' = TimeoutCallback(em, CHOOSE t \in em.timers : t.h = h)
  /\ UNCHANGED <<wsVars, http, pm, lex, tl>>

EmNext ==
  \/ \E ev \in EmEvents, fn \in Fns, once \in BOOLEAN, timeout \in BOOLEAN :
       AddListener(ev, fn, once, timeout)
  \/ \E ev \in EmEvents, fn \in Fns : RemoveListener(ev, fn)
  \/ \E ev \in EmEvents, fn \in Fns, k \in 0..MaxEmCalls : CleanupFunction(ev, fn, k)
  \/ \E ev \in EmEvents \cup {"undefined"} : RemoveAllListeners(ev)
  \/ EmCleanup
  \/ \E ev \in EmEvents, d \in StackDepths : Emit(ev, d)
  \/ \E h \in 1..MaxEmCalls : ListenerTimeout(h)

EmSpec == HttpSpecInit /\ [][EmNext]_vars

(***************************************************************************)
(* The TaskLoader on its own.                                              *)
(***************************************************************************)
\* loadTask(name) is called: it waits for initialize() or goes on at once
LoadTask(name, ok) ==
  /\ tl.ncalls < MaxLoadCalls
  /\ LET c == tl.ncalls + 1
         t == [tl EXCEPT !.ncalls = c]
     IN tl' = IF ~tl.initialized
                THEN [t EXCEPT !.call[c] = [pc |-> "init", name |-> name, p |-> 0, module |-> 0]]
                ELSE loadTask(t, c, name, ok)
  /\ UNCHANGED <<wsVars, http, pm, lex, em>>

\* fs.readdir calls back for the initialize() of call c
ScanDone(c, scanned, ok) ==
  /\ tl.call[c].pc = "init"
  /\ tl' = initialize(tl, c, scanned, ok)
  /\ UNCHANGED <<wsVars, http, pm, lex, em>>

\* the loading promise call c awaits has settled
LoadSettled(c) ==
  /\ tl.call[c].pc = "await"
  /\ tl' = loadTask_resume(tl, c)
  /\ UNCHANGED <<wsVars, http, pm, lex, em>>

ClearCache(name) ==
  /\ tl.initialized
  /\ tl' = clearCache(tl, name)
  /\ UNCHANGED <<wsVars, http, pm, lex, em>>

TlNext ==
  \/ \E name \in TaskNames, ok \in BOOLEAN : LoadTask(name, ok)
  \/ \E c \in 1..MaxLoadCalls, scanned \in BOOLEAN, ok \in BOOLEAN : ScanDone(c, scanned, ok)
  \/ \E c \in 1..MaxLoadCalls : LoadSettled(c)
  \/ \E name \in TaskNames \cup {"undefined"} : ClearCache(name)

TlSpec == HttpSpecInit /\ [][TlNext]_vars

(***************************************************************************)
(* Properties.                                                             *)
(***************************************************************************)
Written(m) == \E i \in 1..Len(frames) : frames[i].msgid = m
AckExpecting(m) == req[m].type # "none" /\ wantsAck(req[m].type)

\* nothing is left that could run: no callback, no timer, no socket, no connect loop
Quiescent ==
  /\ sendCbs = << >> /\ immediates = << >> /\ rpWaiters = << >>
  /\ timers = {} /\ rtimers = 0
  /\ \A k \in Socks : sock[k] \notin {"connecting", "open"}
  /\ \A m \in Mids : co[m].st = "none"

\* the requestor has been closed by its owner and nothing is left to run:
\* every later request is discarded, the state is final
Terminated == closeCalled /\ Quiescent /\ Running

\* C1: every promise returned by request for an ack-expecting message that
\* was written to the socket settles.  Stated on the final states: when the
\* requestor has been closed and nothing is left to run, no such promise is
\* still pending.
C1_WrittenRequestsSettle ==
  Terminated => \A m \in Mids : (Written(m) /\ AckExpecting(m)) => promise[m] # "pending"

\* C2: for every entry of messagesInFlight, an ack for its msgid removes the
\* entry, cancels the timer and resolves the promise with the ack's data,
\* and the expiry of the entry's timer removes the entry and rejects the
\* promise.
C2_AckOrTimeoutSettlesEntry ==
  \A i \in 1..Len(messagesInFlight) :
    LET e == messagesInFlight[i]
        a == _recvAck(S, e.id, AckDataOf(e.id))
        t == AckTimeout(S, e.rec)
    IN /\ ~MapHas(a.messagesInFlight, e.id)
       /\ e.rec # 0 => /\ e.rec \notin a.timers
                       /\ promise[e.rec] = "pending"
                       /\ a.promise[e.rec] = "resolved" /\ a.value[e.rec] = AckDataOf(e.id)
       /\ (e.rec # 0 /\ e.rec \in timers) =>
             /\ ~MapHas(t.messagesInFlight, e.id)
             /\ t.promise[e.rec] = "rejected"

\* a step in which the owner calls request
OwnerRequests(m) == req[m].type = "none" /\ req'[m].ext

\* C3: once closedGracefully is set it stays set, and a request made by the
\* owner from then on returns without throwing (its promise is resolved),
\* writes no frame, starts no connection attempt and adds nothing to
\* messagesInFlight or queuedMsg.
C3_ClosedRequestorDiscards ==
  [][closedGracefully =>
       /\ closedGracefully'
       /\ \A m \in Mids : OwnerRequests(m) =>
            /\ promise'[m] = "resolved"
            /\ frames' = frames /\ sock' = sock /\ co' = co
            /\ connectInProgress' = connectInProgress
            /\ messagesInFlight' = messagesInFlight /\ queuedMsg' = queuedMsg]_vars

\* close() was called before anything was requested, and a request made
\* afterwards has returned
C3_Witness ==
  /\ closedGracefully /\ closeCalled
  /\ \A k \in Socks : sock[k] = "none"
  /\ \E m \in Mids : req[m].ext /\ AckExpecting(m) /\ promise[m] = "resolved"

\* C8: the frames of the owner's requests are written in the order in which
\* the requests were submitted.
C8_FramesInSubmissionOrder ==
  \A i, j \in 1..Len(frames) :
    (i < j /\ req[frames[i].msgid].ext /\ req[frames[j].msgid].ext)
      => frames[i].msgid < frames[j].msgid

\* C9: a binary frame arriving on the open socket marks the peer malicious
\* and closes the socket, and a request made afterwards is discarded.
C9_BinaryFrameMarksMalicious ==
  \A f \in InboundFrames :
    (f.binary /\ ws # 0 /\ sock[ws] = "open") =>
       LET t == _onMessage(S, f) IN
       /\ t.maliciousClient
       /\ t.sock[ws] = "closed"
       /\ t.rtimers = rtimers
       /\ t.frames = frames

\* the session:new entry of request a is held under the msgid of the
\* session:reconnect b, and the promise of a is still pending
Rekeyed(a, b) ==
  /\ req[a].type = "session:new" /\ req[b].type = "session:reconnect"
  /\ MapHas(messagesInFlight, b) /\ MapGet(messagesInFlight, b) = a
  /\ promise[a] = "pending"

\* the promise of the session:new a was resolved by the ack of the
\* session:reconnect b
ResolvedByReconnectAck(a, b) ==
  /\ req[a].type = "session:new" /\ req[b].type = "session:reconnect"
  /\ promise[a] = "resolved" /\ value[a] = AckDataOf(b)

\* no write callback, setImmediate callback or suspended callback is left
FlushIdle == sendCbs = << >> /\ immediates = << >> /\ rpWaiters = << >>

\* C4: when the ack of the session:reconnect has resolved the promise of the
\* unacked session:new, _initMsgId is cleared and the messages queued during
\* the reconnect are written: once the callbacks have run, with the socket
\* of the reconnect still installed, none is left on queuedMsg.
C4_QueueFlushedAfterReconnectAck ==
  \A a, b \in Mids :
    (ResolvedByReconnectAck(a, b) /\ _reconnectPromise = b /\ FlushIdle
       /\ Running /\ ws # 0 /\ ~closedGracefully)
      => (_initMsgId = 0 /\ queuedMsg = << >>)

\* C5: after the re-keying, an ack carrying the old msgid and an ack
\* carrying the new msgid each resolve the promise of the session:new, with
\* the data of that ack.
C5_AckToEitherIdResolves ==
  \A a, b \in Mids : Rekeyed(a, b) =>
    \A id \in {a, b} :
      LET t == _recvAck(S, id, AckDataOf(id))
      IN t.promise[a] = "resolved" /\ t.value[a] = AckDataOf(id)

\* C5 (amended): after the re-keying, an ack carrying the new msgid resolves
\* the promise of the session:new with the data of that ack; an ack carrying
\* the old msgid settles no promise and leaves messagesInFlight unchanged.
C5_OnlyNewIdResolves ==
  \A a, b \in Mids : Rekeyed(a, b) =>
    LET tb == _recvAck(S, b, AckDataOf(b))
        ta == _recvAck(S, a, AckDataOf(a))
    IN /\ tb.promise[a] = "resolved" /\ tb.value[a] = AckDataOf(b)
       /\ ~MapHas(tb.messagesInFlight, b)
       /\ ta.promise = promise /\ ta.messagesInFlight = messagesInFlight

\* the entry was re-keyed and the ack carrying the new msgid has arrived:
\* the promise of the session:new holds the data of that ack
C5_Witness == \E a, b \in Mids : ResolvedByReconnectAck(a, b)

\* C6: when the ack of the session:reconnect arrives, all messages held on
\* queuedMsg are sent: those with a promise are written, the others are
\* handed to setImmediate, and queuedMsg is empty.
C6_ReconnectAckReleasesQueue ==
  \A b \in Mids :
    (/\ req[b].type = "session:reconnect" /\ _reconnectPromise = b
     /\ MapHas(messagesInFlight, b) /\ MapGet(messagesInFlight, b) # 0
     /\ FlushIdle /\ Running /\ ws # 0 /\ sock[ws] = "open")
    => LET t == RunWaiters(_recvAck(S, b, AckDataOf(b)))
       IN /\ t.queuedMsg = << >>
          /\ \A i \in 1..Len(queuedMsg) :
               \/ \E j \in 1..Len(t.frames) : t.frames[j].msgid = queuedMsg[i]
               \/ \E j \in 1..Len(t.immediates) : t.immediates[j] = queuedMsg[i]

FirstOnSock(i) == \A j \in 1..(i - 1) : frames[j].sock # frames[i].sock

\* C7: the first frame written on a socket that was opened after the first
\* connection is a session:reconnect, requested with the original url as
\* hook, whose data is the payload sent with the session:new.
C7_ReopenStartsWithReconnect ==
  \A i \in 1..Len(frames) :
    (FirstOnSock(i) /\ frames[i].conn >= 2) =>
       /\ frames[i].type = "session:reconnect"
       /\ req[frames[i].msgid].hook = "url"
       /\ \E j \in 1..(i - 1) : /\ frames[j].type = "session:new"
                                /\ frames[i].data = frames[j].data

\* a text frame that fails JSON parsing or validation arrives on the open socket
InvalidTextFrame(f) ==
  /\ ~f.binary /\ Validate(f) = "invalid"
  /\ ws # 0 /\ sock[ws] = "open"
  /\ \E m \in Mids : req[m].type = "none"

InvalidFrameArrives(k, f) ==
  /\ SocketEventMayRun /\ sock[k] = "open"
  /\ Validate(f) = "invalid"
  /\ \E m \in Mids : req[m].type = "none"

\* C11: an inbound frame that fails parsing or validation produces exactly
\* one alert, whether or not the alert write fails, and nothing propagates
\* out of the handler or stops later handling; a jambonz:error frame is
\* only ever written to a socket that is open when it is written.
C11_InvalidFrameAlertsOnce ==
  /\ [](\A k \in Socks, f \in InboundFrames : InvalidFrameArrives(k, f) =>
          LET t == RunWaiters(_onMessage(S, f))
          IN t.alerts = alerts + 1 /\ ~t.crashed /\ ~t.hung)
  /\ [][\A i \in (Len(frames) + 1)..Len(frames') :
           frames'[i].type = "jambonz:error" => sock'[frames'[i].sock] = "open"]_vars

\* an invalid frame was received and answered by a jambonz:error; a request
\* made afterwards was written and the ack the peer sent for it was handled
C11_Witness ==
  /\ alerts = 1 /\ Running
  /\ \E m \in Mids : /\ req[m].type = "jambonz:error" /\ Written(m)
                     /\ \E n \in Mids : n > m /\ req[n].ext /\ promise[n] = "resolved"

\* socket k can drop while the requestor may still reconnect
DropEligible(k) ==
  /\ SocketEventMayRun /\ sock[k] = "open"
  /\ connections > 0 /\ connections < maxReconnects /\ ~closedGracefully

LimitReachedAndDropped ==
  /\ connections >= maxReconnects /\ ws = 0
  /\ \A k \in Socks : sock[k] \notin {"connecting", "open"}

\* C13: the number of successful connections never exceeds maxReconnects;
\* once the limit is reached and the socket has dropped, a request creates
\* no socket, leaves ws null and rejects.
C13_ConnectionsWithinLimit ==
  /\ connections <= maxReconnects
  /\ (LimitReachedAndDropped /\ Running /\ ~closedGracefully /\ ~maliciousClient) =>
       \A m \in Mids : (req[m].type = "none" /\ \A n \in Mids : n < m => req[n].type # "none") =>
         LET t == RunWaiters(NewRequest(S, "verb:hook", ParamsOf("verb:hook"), "rel", TRUE))
         IN t.ovf \/ (t.ws = 0 /\ t.sock = sock /\ t.promise[m] = "rejected")

\* C20: the first frame a WsRequestor writes, when its first request is the
\* session:new that a handover submits, is that session:new, with a msgid
\* no other frame has, the call sid of the session and the snake-cased
\* params as data; no request made while the session:new is still
\* connecting has its frame written before it.
C20_FirstFrameIsSessionNew ==
  (frames # << >> /\ req[1].type = "session:new" /\ promise[1] # "rejected") =>
     /\ frames[1].type = "session:new" /\ frames[1].msgid = 1
     /\ frames[1].call_sid = req[1].params
     /\ frames[1].data = snakeCaseKeys(req[1].params)
     /\ \A i \in 2..Len(frames) : frames[i].msgid # frames[1].msgid

\* the initial connect has completed: it failed for good, or its socket is
\* installed and the write callbacks have run
InitialConnectOver ==
  /\ Running /\ FlushIdle /\ ~closeCalled
  /\ ~connectInProgress /\ _reconnectPromise = 0
  /\ \A k \in Socks : sock[k] # "connecting"
  /\ \A m \in Mids : co[m].st = "none"
  /\ connections = 0 \/ (connections = 1 /\ ws # 0)

\* C21: once the initial connect has completed, every request that was
\* queued while it was in progress has been sent or rejected: queuedMsg is
\* empty and no ack-expecting request that was never written is pending.
C21_QueuedRequestsSettle ==
  InitialConnectOver =>
    /\ queuedMsg = << >>
    /\ \A m \in Mids : (AckExpecting(m) /\ ~Written(m)) => promise[m] # "pending"

\* request m is of a type of the no-ack list
NoAckType(m) == req[m].type # "none" /\ ~wantsAck(req[m].type)

\* C22: a request of a no-ack type never has an entry in messagesInFlight
\* and, once written, its promise is settled without any ack; a written
\* request of any other type has exactly one entry, keyed by its msgid, for
\* as long as neither its ack nor its timeout has settled it.
C22_InFlightEntryPerAckedRequest ==
  /\ \A m \in Mids : NoAckType(m) =>
       /\ ~MapHas(messagesInFlight, m)
       /\ Written(m) => promise[m] = "resolved"
  /\ \A m \in Mids : (AckExpecting(m) /\ Written(m) /\ promise[m] = "pending") =>
       Cardinality({i \in 1..Len(messagesInFlight) : messagesInFlight[i].id = m}) = 1

\* a request can be sent at once: a socket is installed and open, no
\* session:reconnect is awaiting its ack, and m is the next request
CanSendAtOnce(m) ==
  /\ Running /\ ~closedGracefully /\ ~maliciousClient
  /\ ws # 0 /\ sock[ws] = "open" /\ _reconnectPromise = 0
  /\ req[m].type = "none" /\ \A n \in Mids : n < m => req[n].type # "none"

WouldQueue(m) ==
  /\ Running /\ ~closedGracefully /\ ~maliciousClient
  /\ (ws = 0 /\ connectInProgress) \/ (ws # 0 /\ _reconnectPromise # 0)
  /\ req[m].type = "none" /\ \A n \in Mids : n < m => req[n].type # "none"

\* a high-water mark that the requests of the model can reach and exceed
QueueMark == MaxReq - 2

\* C24: the length of queuedMsg never exceeds the high-water mark; once
\* the mark is reached, an ack-expecting request made while connecting or
\* reconnecting is rejected at once and is not queued.
C24_QueueWithinHighWaterMark ==
  /\ Len(queuedMsg) <= QueueMark
  /\ \A m \in Mids : (WouldQueue(m) /\ Len(queuedMsg) >= QueueMark) =>
       LET t == RunWaiters(NewRequest(S, "verb:hook", ParamsOf("verb:hook"), "rel", TRUE))
       IN t.promise[m] = "rejected" /\ t.queuedMsg = queuedMsg

(***************************************************************************)
(* Properties of OptimizedHttpRequestor.request.                           *)
(***************************************************************************)
\* the request() of the OptimizedHttpRequestor has returned after its retry loop
HttpFinished == http.pc = "idle" /\ http.result \in {"resolved", "rejected"} /\ http.attempts > 0

\* C14: request resolves with the response of the first attempt that
\* succeeds, the empty result of a 2xx non-JSON response included, also
\* after failed attempts; it rejects only when no attempt succeeded.
C14_SuccessfulAttemptResolves ==
  HttpFinished =>
    /\ http.response # "null" => (http.result = "resolved" /\ http.value = http.response)
    /\ http.result = "rejected" => (http.response = "null" /\ http.value = http.lastError)

\* C15: with rc=N in the fragment the retry count is clamped into [1,5] and
\* the attempts made for one request are at least 1 and at most min(|N|,5).
C15_AttemptsWithinRc ==
  (http.rc # << >> /\ http.attempts > 0) =>
     http.attempts <= Max(1, Min(Abs(http.rc[1]), 5))

\* the error class that a token of the retry policy stands for
TokenMatches(tok, o) ==
  \/ tok = "all"
  \/ tok = "ct" /\ o.kind = "error"
  \/ tok = "4xx" /\ o.kind = "response" /\ o.status >= 400 /\ o.status <= 499
  \/ tok = "5xx" /\ o.kind = "response" /\ o.status >= 500 /\ o.status <= 599

AttemptFails(o) == o.kind = "error" \/ o.status \notin {200, 202, 204}

\* C16: a failed attempt is followed by another attempt iff retries remain
\* and some token of the retry policy matches the error; with the policy ct
\* a status error is not retried; an error that is not retried makes the
\* request reject with no backoff wait and no further attempt.
C16_RetryIffPolicyMatches ==
  http.pc = "attempt" =>
    \A o \in HttpOutcomes : AttemptFails(o) =>
      LET t == HttpAfterAttempt(http, o)
          retried == t.pc = "sleep"
      IN /\ retried <=> (/\ http.retryCount < http.maxRetries
                         /\ \E tok \in http.retryPolicyValues : TokenMatches(tok, o))
         /\ retried => /\ Len(t.delays) = Len(http.delays) + 1
                       /\ HttpAfterSleep(t).pc = "attempt"
                       /\ HttpAfterSleep(t).attempts = http.attempts + 1
         /\ ~retried => /\ t.delays = http.delays /\ t.pc = "alert"
                        /\ handleError(t).result = "rejected"
                        /\ handleError(t).attempts = http.attempts
         /\ (http.retryPolicyValues = {"ct"} /\ o.kind = "response") => ~retried

\* a transport error was retried under the policy 5xx,ct and the 404 that
\* followed made the request reject after that one wait
C16_Witness ==
  /\ HttpFinished /\ http.result = "rejected" /\ http.value = "4xx"
  /\ http.retryPolicyValues = {"5xx", "ct"} /\ http.maxRetries = 3
  /\ http.attempts = 2 /\ Len(http.delays) = 1

\* the backoff delays of the documented scheme: 500, 1000, 2000, then +2000 per step
BackoffSeq(i) ==
  IF i <= 3 THEN INITIAL_BACKOFF_MS * Pow2(i - 1) ELSE BACKOFF_STEP_MS * (i - 2)

\* C17: the waits before the successive retries of one request are 500,
\* 1000, 2000, 4000, 6000 ms, and every request starts again at 500 ms.
C17_HttpBackoffSequence ==
  \A i \in 1..Len(http.delays) : http.delays[i] = BackoffSeq(i)

\* C18: the delays one WsRequestor uses, connect retries and scheduled
\* reconnects together, are 500, 1000, 2000, 4000, 6000, ... in this
\* order, and backoffMs never decreases.
C18_WsBackoffSequence ==
  /\ [](/\ \A i \in 1..Len(delays) : delays[i] = BackoffSeq(i)
        /\ backoffMs = BackoffSeq(Len(delays) + 1))
  /\ [][backoffMs' >= backoffMs]_vars

\* two connect attempts of session:new failed, the third socket opened and
\* dropped, and two scheduled reconnects failed: five delays, the last 6000 ms
C18_Witness ==
  /\ Len(delays) = 5 /\ delays[5] = 6000
  /\ frames # << >> /\ frames[1].sock = 3 /\ connections = 1

\* C25: the outcome of one attempt depends only on the status and the
\* content type of the response: every 2xx status succeeds, with the parsed
\* body for a JSON content type and the empty result otherwise; every other
\* status, 301 included, is a failed attempt with an error of that status.
C25_AttemptOutcomeByStatus ==
  http.pc = "attempt" =>
    \A o \in HttpOutcomes : o.kind = "response" =>
      LET t == HttpAfterAttempt(http, o)
      IN IF o.status >= 200 /\ o.status <= 299
         THEN /\ t.response = (IF o.json THEN "json" ELSE "empty")
              /\ t.lastError = http.lastError /\ t.retryCount = http.retryCount
         ELSE /\ t.response = "null" /\ t.retryCount = http.retryCount + 1
              /\ t.lastError = StatusClass(o.status)

\* C19: for every message type, a request whose hook is a ws url constructs
\* a WsRequestor with the same account and secret and emits handover with
\* it; the requestor closes itself only when the type is session:redirect.
C19_HandoverEmittedForEveryType ==
  /\ http.handovers = http.created
  /\ \A i \in 1..Len(http.created) :
       /\ http.created[i].account_sid = http.account_sid
       /\ http.created[i].secret = http.secret
  /\ http.closeCalls =
       Cardinality({i \in 1..Len(http.created) : http.created[i].trigger = "session:redirect"})


(***************************************************************************)
(* Properties of the connection pool registry.                             *)
(***************************************************************************)
\* the pools the registry holds that have not been closed
LivePools == {pm.pools[b] : b \in {x \in BaseUrls : pm.pools[x] # 0}}

\* C26: the registry holds at most one pool per base URL: every pool ever
\* created is either closed or the one pool registered for exactly one base
\* URL; pools and poolStats have the same keys; getPool(b) creates a pool
\* only when none is registered for b and otherwise returns the registered
\* one, so that a second getPool(b) returns the same pool; and each
\* getPool(b) raises requestCount of b by exactly one.
C26_OnePoolPerBaseUrl ==
  /\ \A b \in BaseUrls : (pm.pools[b] # 0) <=> pm.poolStats[b].present
  /\ \A id \in 1..pm.nPools :
       \/ id \in pm.closed /\ id \notin LivePools
       \/ id \notin pm.closed /\ Cardinality({b \in BaseUrls : pm.pools[b] = id}) = 1
  /\ pm.instance =>
       \A b \in BaseUrls :
         LET t == getPool(pm, b)
         IN /\ pm.pools[b] # 0 => (t.ret = pm.pools[b] /\ t.nPools = pm.nPools)
            /\ pm.pools[b] = 0 => (t.ret = pm.nPools + 1 /\ t.nPools = pm.nPools + 1)
            /\ t.pools[b] = t.ret
            /\ getPool(t, b).ret = t.ret
            /\ t.poolStats[b].requestCount = pm.poolStats[b].requestCount + 1
            /\ \A c \in BaseUrls \ {b} :
                 t.pools[c] = pm.pools[c] /\ t.poolStats[c] = pm.poolStats[c]

\* a pool was evicted, its base URL got a new pool, and that pool was handed
\* out twice
C26_Witness ==
  /\ pm.cleanupTimer /\ pm.closed # {} /\ pm.nPools >= 2
  /\ \E b \in BaseUrls : /\ pm.pools[b] = pm.ret /\ pm.ret >= 2
                         /\ pm.poolStats[b].requestCount = 2
                         /\ pm.poolStats[b].created > 0

\* C27: a run of cleanup() closes and removes exactly the pools last used
\* more than idleTimeout ago and leaves the others and their statistics
\* alone, and every pool the process-wide manager holds is eventually closed
\* and removed when it is not used again: while the cleanup interval is armed
\* and not due the registry holds no pool idle for longer than idleTimeout,
\* and a registered pool always has an armed cleanup interval to evict it,
\* also when it was created after destroy().
C27_IdlePoolsAreEvicted ==
  /\ pm.instance =>
       LET t == cleanup(pm)
       IN \A b \in BaseUrls :
            IF pm.poolStats[b].present /\ pm.poolStats[b].lastUsed < pm.now - IDLE_TIMEOUT
              THEN /\ t.pools[b] = 0 /\ ~t.poolStats[b].present
                   /\ pm.pools[b] \in t.closed
              ELSE /\ t.pools[b] = pm.pools[b] /\ t.poolStats[b] = pm.poolStats[b]
                   /\ pm.pools[b] \notin t.closed
  /\ (pm.cleanupTimer /\ ~pm.timerDue) =>
       \A b \in BaseUrls :
         pm.poolStats[b].present => pm.poolStats[b].lastUsed >= pm.now - IDLE_TIMEOUT
  /\ \A b \in BaseUrls : pm.pools[b] # 0 => pm.cleanupTimer

(***************************************************************************)
(* Properties of the Lex task.                                             *)
(***************************************************************************)
\* no endpoint command of the task is outstanding
LexCommandsDone == lex.pc # "init" /\ lex.start # "pending" /\ lex.breaksPending = 0

\* C28: once kill(cs) has been called on a Lex task whose exec has started,
\* the promise of exec resolves: it never rejects, and it is resolved as soon
\* as the endpoint commands the task has sent have succeeded or failed,
\* whether the endpoint was connected at the kill or not; exec also resolves
\* when aws_lex_start fails and when init throws.
C28_KillResolvesExec ==
  /\ lex.pc # "rejected"
  /\ (lex.kills > 0 /\ LexCommandsDone) => lex.pc = "resolved"
  /\ (lex.pc = "await" /\ ~lex.connected) => Lex_kill(lex).pc = "resolved"
  /\ (lex.pc = "await" /\ lex.breaksPending > 0) => Lex_kill_resume(lex).pc = "resolved"
  /\ lex.start = "failed" => lex.pc = "resolved"
  /\ lex.pc = "new" =>
       \A bargein \in BOOLEAN, actionHook \in BOOLEAN :
         Lex_exec(lex, bargein, actionHook, {"intent"}, TRUE).pc = "resolved"
  /\ lex.pc = "init" => Lex_init_resume(lex, FALSE).pc = "resolved"

\* exec has resolved after a kill with the endpoint gone and after a kill
\* whose uuid_break was sent, in a task whose bot had started
C28_Witness ==
  /\ lex.pc = "resolved" /\ lex.kills = 2 /\ lex.breaks = 1
  /\ ~lex.connected /\ lex.start = "ok" /\ LexCommandsDone

\* C29: kill is idempotent and the action hook is reported at most once: a
\* kill(cs) of a task that has been killed before sends no further
\* action-hook request and no further uuid_break, and no task has reported
\* its action hook twice, whether it ended by kill or by a redirect and the
\* kill that replaceApplication makes.
C29_KillIsIdempotent ==
  /\ (lex.kills > 0 /\ lex.pc \in {"init", "await"}) =>
       LET t == Lex_kill(lex)
       IN t.reported = lex.reported /\ t.breaks = lex.breaks
  /\ Len(lex.reported) <= 1

\* C30: when the response to an event hook is an array of verb nodes the
\* task calls cs.replaceApplication exactly once with the tasks made from
\* it, after it has reported its action hook (if it has one) with lexResult
\* 'redirect' and advance = false; a response with no verb nodes (an empty
\* array, an object) or a rejected request leaves the application as it
\* was and reports nothing; and no event-hook outcome makes exec reject.
C30_EventHookRedirect ==
  lex.hooks > 0 =>
    \A r \in HookResponses :
      LET t == _performHook(lex, r)
          n == Len(lex.reported)
      IN /\ t.pc # "rejected"
         /\ r = "tasks" =>
              /\ t.replaced = lex.replaced + 1 /\ t.app = "tasks"
              /\ lex.actionHook =>
                   /\ Len(t.reported) > n
                   /\ t.reported[n + 1] = [lexResult |-> "redirect", advance |-> FALSE]
              /\ \A i \in 1..Len(t.reported) :
                   (i > n /\ t.reported[i].lexResult = "redirect") => i = n + 1
         /\ r # "tasks" =>
              /\ t.replaced = lex.replaced /\ t.app = lex.app
              /\ t.reported = lex.reported /\ t.kills = lex.kills
              /\ t.pc = lex.pc

\* one event hook came back with verb nodes and replaced the application, a
\* second one came back without, and exec has resolved
C30_Witness ==
  /\ lex.hooksSent = 2 /\ lex.hooks = 0 /\ lex.replaced = 1 /\ lex.app = "tasks"
  /\ Len(lex.reported) >= 1 /\ lex.reported[1] = [lexResult |-> "redirect", advance |-> FALSE]
  /\ lex.pc = "resolved"

(***************************************************************************)
(* Properties of the requestor without connection pools.                   *)
(***************************************************************************)
\* C31: with pooling disabled request() still sends the webhook, through a
\* client of its own, and handles the outcome of an attempt as it does with
\* pooling enabled: for every outcome the attempt leaves the request in the
\* same state in both configurations.
C31_SameOutcomeWithoutPools ==
  (http.pc = "attempt" /\ ~http._usePools) =>
    /\ getClientConfig(http) # "TypeError"
    /\ \A o \in HttpOutcomes :
         HttpAfterAttempt(http, o) =
           [HttpAfterAttempt([http EXCEPT !._usePools = TRUE], o) EXCEPT !._usePools = FALSE]

(***************************************************************************)
(* Properties of the EventManager.                                         *)
(***************************************************************************)
\* C32: the count getStats reports as totalListeners is the number of
\* listeners registered on the emitter, summed over the events, and it is
\* never negative.
C32_ListenerCountIsExact ==
  /\ em.listenerCount = Len(em.emitter["a"]) + Len(em.emitter["b"])
  /\ em.listenerCount >= 0

\* C33: a once listener with a timeout is either called exactly once by the
\* first emit, which cancels its timer, or removed by its timeout without
\* having been called, and a later emit does not call it; either way it is
\* gone from the emitter and from listeners, onceListeners and
\* timeoutListeners.
C33_OnceWithTimeout ==
  \A ev \in EmEvents : \A t \in em.timers :
    (t.ev = ev /\ t.l.k > 0 /\ em.emitter[ev] = <<t.l>>) =>
      LET Gone(e) == /\ e.emitter[ev] = << >> /\ t.l \notin e.listeners[ev]
                     /\ t.l \notin e.onceListeners
                     /\ \A x \in e.timeoutListeners : x.l # t.l
                     /\ t \notin e.timers
          fired == TimeoutCallback(em, t)
      IN /\ \A d \in StackDepths :
              LET e == emit(em, ev, d)
              IN /\ e.invoked[t.l.fn] = em.invoked[t.l.fn] + 1
                 /\ Gone(e)
                 /\ emit(e, ev, d).invoked = e.invoked
         /\ Gone(fired) /\ fired.invoked = em.invoked
         /\ \A d \in StackDepths : emit(fired, ev, d).invoked = em.invoked

\* C34: cleanup() leaves no listener on the emitter, empty listeners,
\* onceListeners and timeoutListeners, a listener count of 0 and no pending
\* auto-removal timer, and a listener added afterwards is tracked from that
\* state: one registration, one tracked listener, count 1.
C34_CleanupLeavesNothing ==
  LET c == EventManager_cleanup(em)
  IN /\ \A ev \in EmEvents : c.emitter[ev] = << >> /\ c.listeners[ev] = {}
     /\ c.onceListeners = {} /\ c.timeoutListeners = {}
     /\ c.listenerCount = 0
     /\ c.timers = {}
     /\ \A ev \in EmEvents, fn \in Fns, once \in BOOLEAN, timeout \in BOOLEAN :
          LET a == addListener(c, ev, fn, once, timeout)
          IN /\ a.listenerCount = 1 /\ Len(a.emitter[ev]) = 1
             /\ Cardinality(a.listeners[ev]) = 1

(***************************************************************************)
(* Properties of the TaskLoader.  loaded counts the successful loads of a  *)
(* name since clearCache last removed it from taskCache.                   *)
(***************************************************************************)
\* C35: however loadTask calls for one name interleave, also calls made
\* before initialize() has finished, the module is loaded at most once until
\* clearCache removes it; as long as nothing was removed all callers get the
\* same module; a call that finds the name in taskCache or in
\* loadingPromises loads nothing and gets that module; and loadingPromises
\* holds an entry only while a call is waiting for that load.
C35_LoadedAtMostOnce ==
  /\ \A n \in TaskNames : tl.loaded[n] <= 1
  /\ \A c1 \in 1..MaxLoadCalls, c2 \in 1..MaxLoadCalls :
       (/\ tl.call[c1].pc = "resolved" /\ tl.call[c2].pc = "resolved"
        /\ tl.call[c1].name = tl.call[c2].name /\ ~tl.removed[tl.call[c1].name])
         => tl.call[c1].module = tl.call[c2].module
  /\ \A n \in TaskNames :
       tl.loadingPromises[n] # 0 =>
         \E c \in 1..MaxLoadCalls :
           tl.call[c] = [pc |-> "await", name |-> n, p |-> tl.loadingPromises[n], module |-> 0]
  /\ \A n \in TaskNames, c \in 1..MaxLoadCalls, ok \in BOOLEAN :
       (tl.initialized /\ tl.call[c].pc = "none") =>
         LET t == loadTask(tl, c, n, ok)
         IN /\ tl.taskCache[n] # 0 =>
                 /\ t.call[c].pc = "resolved" /\ t.call[c].module = tl.taskCache[n]
                 /\ t.modules = tl.modules /\ t.promises = tl.promises
            /\ (tl.taskCache[n] = 0 /\ tl.loadingPromises[n] # 0) =>
                 /\ t.promises = tl.promises
                 /\ t.call[c].module = tl.promises[tl.loadingPromises[n]].module

\* two calls were made before the loader was initialized and a third later;
\* all three have the one module that was loaded
C35_Witness ==
  /\ tl.modules = 1 /\ tl.loaded["say"] = 1 /\ ~tl.removed["say"]
  /\ \A c \in 1..MaxLoadCalls :
       tl.call[c] = [pc |-> "resolved", name |-> "say", p |-> tl.call[c].p, module |-> 1]
  /\ \E c \in 1..MaxLoadCalls : tl.call[c].p = 0
  /\ tl.loadingPromises["say"] = 0

\* C36: a loadTask that fails rejects for every caller that shares the load,
\* adds nothing to taskCache and leaves no entry in loadingPromises, so
\* that the next loadTask of the name loads again; a name that is not in
\* taskMap is rejected without a load; and the keys of taskCache are keys
\* of taskMap.
C36_FailedLoadLeavesNoTrace ==
  /\ \A n \in TaskNames : tl.taskCache[n] # 0 => n \in tl.taskMap
  /\ \A c \in 1..MaxLoadCalls : tl.call[c].pc = "rejected" => tl.call[c].module = 0
  /\ \A c \in 1..MaxLoadCalls :
       (tl.call[c].pc = "await" /\ ~tl.promises[tl.call[c].p].ok) =>
         LET n == tl.call[c].name
             t == loadTask_resume(tl, c)
         IN /\ t.call[c].pc = "rejected"
            /\ t.taskCache = tl.taskCache
            /\ t.loadingPromises[n] = 0
            /\ \A d \in 1..MaxLoadCalls :
                 tl.call[d].pc = "none" =>
                   /\ loadTask(tl, d, n, TRUE).call[d].pc = "rejected"
                   /\ loadTask(t, d, n, TRUE).modules = tl.modules + 1
                   /\ loadTask(t, d, n, TRUE).call[d].pc = "await"
  /\ \A n \in TaskNames, c \in 1..MaxLoadCalls, ok \in BOOLEAN :
       (tl.initialized /\ tl.call[c].pc = "none" /\ n \notin tl.taskMap) =>
         LET t == loadTask(tl, c, n, ok)
         IN /\ t.call[c].pc = "rejected"
            /\ t.taskCache = tl.taskCache /\ t.loadingPromises = tl.loadingPromises
            /\ t.promises = tl.promises

\* a load failed for two callers that shared it and left nothing behind;
\* the next call loaded the module
C36_Witness ==
  /\ tl.call[1].pc = "rejected" /\ tl.call[2].pc = "rejected"
  /\ tl.call[1].name = "say" /\ tl.call[2].name = "say" /\ tl.call[2].p = tl.call[1].p
  /\ tl.call[3] = [pc |-> "resolved", name |-> "say", p |-> 2, module |-> 1]
  /\ tl.taskCache["say"] = 1 /\ tl.loadingPromises["say"] = 0

\* C37: at most one connection attempt is in progress and at most one
\* socket is open, and when a connecting socket reports 'open' or
\* 'unexpected-response' no socket is installed, so that assert(!this.ws) of
\* _onOpen and _onUnexpectedResponse holds; _connect is entered with ws
\* null, from the retry wait and from the reconnect timer too.
C37_OneConnectAttempt ==
  Running =>
    /\ Cardinality({k \in Socks : sock[k] = "connecting"}) <= 1
    /\ Cardinality({k \in Socks : sock[k] = "open"}) <= 1
    /\ \A k \in Socks : sock[k] = "connecting" => ws = 0
    /\ \A m \in Mids : co[m].st = "delay" => ~RetryConnect(S, m).crashed
    /\ rtimers > 0 => ~ReconnectTimeout(S).crashed

\* C38: once close() has been called, no step installs a socket and no
\* step writes a frame: ws stays null and frames stays as it is, whatever
\* was in progress when close() was called.
C38_ClosedStaysClosed ==
  [][closeCalled => (ws' = 0 /\ frames' = frames)]_vars

\* C39: every entry of messagesInFlight holds a record (not undefined)
\* whose timer is pending and deletes the key the entry is stored under,
\* also after the session:new entry was re-keyed on reconnect, so that
\* _clearPendingMessages does not throw.
C39_InFlightRecordsComplete ==
  Running =>
    /\ \A i \in 1..Len(messagesInFlight) :
         LET e == messagesInFlight[i]
         IN e.rec # 0 /\ e.rec \in timers /\ e.rec = e.id
    /\ ~_clearPendingMessages(S).threw

\* C40: an ack whose msgid is not a key of messagesInFlight leaves the
\* whole state of the requestor as it was, and a socket drop after it is
\* handled as it would have been without the ack.
C40_UnknownAckChangesNothing ==
  Running =>
    \A msgid \in WrittenMsgIds :
      ~MapHas(messagesInFlight, msgid) =>
        LET t == _recvAck(S, msgid, AckDataOf(msgid))
        IN t = S /\ _onSocketClosed(t) = _onSocketClosed(S)

=========================================================================
